---- MODULE Spec2Model ----
(***************************************************************************)
(* A model of cryptoprice: the fiat lexer (src/calc.rs), the provider      *)
(* contract and registry (src/provider/mod.rs, coingecko.rs) and the       *)
(* control flow of run() (src/main.rs): calc mode with its concurrent      *)
(* fan-out, chart mode with the window -> day-count fallback, and the      *)
(* history window filter.                                                  *)
(*                                                                         *)
(* Strings are handled character by character (Len, SubSeq and \o apply   *)
(* to strings), so that case mapping, splitting and substring search are   *)
(* computed, not assumed.  f64 values are exact non-negative rationals     *)
(* [n, d]; d = 0 stands for the IEEE results of a division by zero         *)
(* (n = 1: +inf, n = 0: NaN).  Rounding is not modelled.                   *)
(***************************************************************************)
EXTENDS Integers, Sequences, FiniteSets, TLC

VARIABLES
    cli,            \* the parsed command line (struct Cli)
    pc,             \* position of run()
    result,         \* what run() returned: None while it runs, then its Result
    out,            \* what was printed on stdout
    requests,       \* the remote requests issued so far, in order
    fiat_result,    \* the FX leg of calc mode: None until complete, then its Result
    crypto_result,  \* the price leg of calc mode: None until complete, then its Result
    conversions,    \* Vec<calc::Conversion> of calc mode
    histories,      \* Vec<PriceHistory> of chart mode
    fetched,        \* the histories as the fetch returned them (ghost copy)
    window_result,  \* what get_price_history_window returned (the match scrutinee)
    token,          \* input of parse_fiat_amount and is_known_fiat (lexer specification)
    parsed,         \* what parse_fiat_amount returned
    known,          \* what is_known_fiat returned
    fh_in,          \* input of filter_histories_by_time_window (filter specification)
    fh_bounds,      \* its (start, end) bounds
    fh_out,         \* its result
    fh_pass,        \* how many times the filter has been applied
    rs_in,          \* the date arguments of a chart request (date specification)
    rs_out,         \* the start date and fetch day-count run() derives from them
    gp_in,          \* a provider, its get_prices arguments and the HTTP response (provider specification)
    gp_out          \* what get_prices returned

vars == <<cli, pc, result, out, requests, fiat_result, crypto_result,
          conversions, histories, fetched, window_result, token, parsed, known,
          fh_in, fh_bounds, fh_out, fh_pass, rs_in, rs_out, gp_in, gp_out>>

runVars == <<cli, pc, result, out, requests, fiat_result, crypto_result,
             conversions, histories, fetched, window_result>>
lexVars == <<token, parsed, known>>
filterVars == <<fh_in, fh_bounds, fh_out, fh_pass>>
dateVars == <<rs_in, rs_out>>
provVars == <<gp_in, gp_out>>

\* Option<T>: None is the empty sequence, Some(x) the one-element sequence
None == <<>>
Some(x) == <<x>>
unwrap(o) == o[1]

\* ------------------------------------------------------------------ text

LowerLetters == "abcdefghijklmnopqrstuvwxyz"
UpperLetters == "ABCDEFGHIJKLMNOPQRSTUVWXYZ"
Digits == "0123456789"

CharAt(s, i) == SubSeq(s, i, i)
Chars(s) == {CharAt(s, i) : i \in 1..Len(s)}
IndexIn(c, letters) == CHOOSE i \in 1..Len(letters) : CharAt(letters, i) = c

LowerSet == Chars(LowerLetters)
UpperSet == Chars(UpperLetters)
DigitSet == Chars(Digits)
UpperOf == [c \in LowerSet |-> CharAt(UpperLetters, IndexIn(c, LowerLetters))]
LowerOf == [c \in UpperSet |-> CharAt(LowerLetters, IndexIn(c, UpperLetters))]

is_ascii_alphabetic(c) == c \in LowerSet \/ c \in UpperSet
is_digit(c) == c \in DigitSet

to_uppercase_char(c) == IF c \in LowerSet THEN UpperOf[c] ELSE c

to_lowercase_char(c) == IF c \in UpperSet THEN LowerOf[c] ELSE c

RECURSIVE to_uppercase(_)
to_uppercase(s) ==
    IF s = "" THEN ""
    ELSE to_uppercase_char(CharAt(s, 1)) \o to_uppercase(SubSeq(s, 2, Len(s)))

RECURSIVE to_lowercase(_)
to_lowercase(s) ==
    IF s = "" THEN ""
    ELSE to_lowercase_char(CharAt(s, 1)) \o to_lowercase(SubSeq(s, 2, Len(s)))

eq_ignore_ascii_case(a, b) == to_lowercase(a) = to_lowercase(b)

\* str::contains: pat occurs in s as a contiguous run
contains(s, pat) ==
    \E i \in 1..(Len(s) + 1) :
        /\ i + Len(pat) - 1 <= Len(s)
        /\ SubSeq(s, i, i + Len(pat) - 1) = pat

\* str::trim: without leading and trailing spaces
RECURSIVE trim(_)
trim(s) ==
    IF s = "" THEN ""
    ELSE IF CharAt(s, 1) = " " THEN trim(SubSeq(s, 2, Len(s)))
    ELSE IF CharAt(s, Len(s)) = " " THEN trim(SubSeq(s, 1, Len(s) - 1))
    ELSE s

\* [String]::join
RECURSIVE join(_, _)
join(parts, sep) ==
    IF parts = <<>> THEN ""
    ELSE IF Len(parts) = 1 THEN parts[1]
    ELSE parts[1] \o sep \o join(Tail(parts), sep)

\* ------------------------------------------------------------------ f64

RECURSIVE Gcd(_, _)
Gcd(a, b) == IF b = 0 THEN a ELSE Gcd(b, a % b)

\* n/d in lowest terms; x/0 is +inf for x > 0 and NaN for x = 0
Rat(n, d) ==
    IF d = 0 THEN [n |-> IF n > 0 THEN 1 ELSE 0, d |-> 0]
    ELSE IF n = 0 THEN [n |-> 0, d |-> 1]
    ELSE [n |-> n \div Gcd(n, d), d |-> d \div Gcd(n, d)]

FMul(a, b) == Rat(a.n * b.n, a.d * b.d)
FDiv(a, b) == Rat(a.n * b.d, a.d * b.n)
FOne == Rat(1, 1)
FZero == Rat(0, 1)
is_finite(a) == a.d # 0

\* ------------------------------------------------------------------ error.rs, Result

Ok(v) == [ok |-> TRUE, value |-> v]
Err(kind, msg) == [ok |-> FALSE, kind |-> kind, msg |-> msg]
\* a panic unwinds out of run(): the process aborts with the message
Panic(msg) == [ok |-> FALSE, kind |-> "panic", msg |-> msg]

\* ------------------------------------------------------------------ calc.rs

KNOWN_FIAT == {
    "USD", "EUR", "GBP", "JPY", "CNY", "CAD", "AUD", "CHF", "KRW", "INR",
    "BRL", "RUB", "TRY", "ZAR", "MXN", "SGD", "HKD", "NOK", "SEK", "DKK",
    "NZD", "PLN", "THB", "TWD", "CZK", "HUF", "ILS", "PHP", "MYR", "ARS",
    "CLP", "COP", "IDR", "SAR", "AED", "NGN", "VND", "PKR", "BDT", "EGP" }

DigitValue(c) == IndexIn(c, Digits) - 1

RECURSIVE Pow10(_)
Pow10(k) == IF k = 0 THEN 1 ELSE 10 * Pow10(k - 1)

\* the number a run of decimal digits denotes
RECURSIVE DigitsValue(_)
DigitsValue(ds) ==
    IF ds = "" THEN 0
    ELSE 10 * DigitsValue(SubSeq(ds, 1, Len(ds) - 1)) + DigitValue(CharAt(ds, Len(ds)))

\* <f64 as FromStr>::from_str on a string without letters: an optional sign,
\* then digits with at most one '.', at least one digit.  The value carries
\* its sign apart from its magnitude; None when the string is no number.
parse_f64(s) ==
    LET signed == s # "" /\ CharAt(s, 1) \in {"+", "-"}
        neg    == s # "" /\ CharAt(s, 1) = "-"
        body   == IF signed THEN SubSeq(s, 2, Len(s)) ELSE s
        dots   == {i \in 1..Len(body) : CharAt(body, i) = "."}
        dot    == CHOOSE i \in dots : TRUE
        intp   == IF dots = {} THEN body ELSE SubSeq(body, 1, dot - 1)
        frac   == IF dots = {} THEN "" ELSE SubSeq(body, dot + 1, Len(body))
    IN  IF \/ Cardinality(dots) > 1
           \/ \E i \in 1..Len(body) : ~(is_digit(CharAt(body, i)) \/ CharAt(body, i) = ".")
           \/ Len(intp) + Len(frac) = 0
        THEN None
        ELSE Some([neg |-> neg,
                   mag |-> Rat(DigitsValue(intp) * Pow10(Len(frac)) + DigitsValue(frac),
                               Pow10(Len(frac)))])

\* s.find(|c| c.is_ascii_alphabetic()): the first index (from 0), or None
find_alpha(s) ==
    LET hits == {i \in 1..Len(s) : is_ascii_alphabetic(CharAt(s, i))}
    IN  IF hits = {} THEN None
        ELSE Some((CHOOSE i \in hits : \A j \in hits : i <= j) - 1)

\* amount <= 0.0 || !amount.is_finite()
amount_rejected_lt(amount) ==
    (amount.neg /\ amount.mag.n # 0) \/ ~is_finite(amount.mag)
amount_rejected(amount) ==
    amount.neg \/ amount.mag.n = 0 \/ ~is_finite(amount.mag)

parse_fiat_amount(s) ==
    LET alpha_start == find_alpha(s)
    IN  IF alpha_start = None THEN None
        ELSE IF unwrap(alpha_start) = 0 THEN None
        ELSE LET num_part   == SubSeq(s, 1, unwrap(alpha_start))
                 code_part  == SubSeq(s, unwrap(alpha_start) + 1, Len(s))
                 code_upper == to_uppercase(code_part)
                 amount     == parse_f64(num_part)
             IN  IF code_upper \notin KNOWN_FIAT THEN None
                 ELSE IF amount = None THEN None
                 ELSE IF amount_rejected(unwrap(amount)) THEN None
                 ELSE Some([amount |-> unwrap(amount).mag, currency |-> code_upper])

\* is_known_fiat comparing the string as given
is_known_fiat_as_given(s) == s \in KNOWN_FIAT

is_known_fiat(s) == to_uppercase(s) \in KNOWN_FIAT

FiatNames == {
    <<"USD", "US Dollar">>,
    <<"EUR", "Euro">>,
    <<"GBP", "British Pound">>,
    <<"JPY", "Japanese Yen">>,
    <<"CNY", "Chinese Yuan">>,
    <<"CAD", "Canadian Dollar">>,
    <<"AUD", "Australian Dollar">>,
    <<"CHF", "Swiss Franc">>,
    <<"KRW", "South Korean Won">>,
    <<"INR", "Indian Rupee">>,
    <<"BRL", "Brazilian Real">>,
    <<"RUB", "Russian Ruble">>,
    <<"TRY", "Turkish Lira">>,
    <<"ZAR", "South African Rand">>,
    <<"MXN", "Mexican Peso">>,
    <<"SGD", "Singapore Dollar">>,
    <<"HKD", "Hong Kong Dollar">>,
    <<"NOK", "Norwegian Krone">>,
    <<"SEK", "Swedish Krona">>,
    <<"DKK", "Danish Krone">>,
    <<"NZD", "New Zealand Dollar">>,
    <<"PLN", "Polish Zloty">>,
    <<"THB", "Thai Baht">>,
    <<"TWD", "New Taiwan Dollar">>,
    <<"CZK", "Czech Koruna">>,
    <<"HUF", "Hungarian Forint">>,
    <<"ILS", "Israeli Shekel">>,
    <<"PHP", "Philippine Peso">>,
    <<"MYR", "Malaysian Ringgit">>,
    <<"ARS", "Argentine Peso">>,
    <<"CLP", "Chilean Peso">>,
    <<"COP", "Colombian Peso">>,
    <<"IDR", "Indonesian Rupiah">>,
    <<"SAR", "Saudi Riyal">>,
    <<"AED", "UAE Dirham">>,
    <<"NGN", "Nigerian Naira">>,
    <<"VND", "Vietnamese Dong">>,
    <<"PKR", "Pakistani Rupee">>,
    <<"BDT", "Bangladeshi Taka">>,
    <<"EGP", "Egyptian Pound">> }

fiat_name(code) ==
    IF \E e \in FiatNames : e[1] = to_uppercase(code)
    THEN (CHOOSE e \in FiatNames : e[1] = to_uppercase(code))[2]
    ELSE code

\* fetch_fiat_rates on the response the FX service gave: resp.status is the
\* outcome of send()/error_for_status(), resp.body the decoded "rates" object
\* (None when the body does not decode).  reqwest errors are converted by `?`.
fetch_fiat_rates(from, to, resp) ==
    IF ~resp.status_ok THEN Err("Http", "status")
    ELSE IF resp.body = None THEN Err("Http", "decode")
    ELSE IF DOMAIN unwrap(resp.body) = {} THEN Err("NoResults", "")
    ELSE Ok(unwrap(resp.body))

\* ------------------------------------------------------------------ provider/mod.rs

\* available_providers: the ids of the registered providers, in order
ProviderIds == <<"coingecko", "stooq", "yahoo", "cmc">>

\* get_provider: the position of the first provider whose id matches, or None
get_provider(providers, id) ==
    LET hits == {i \in 1..Len(providers) : eq_ignore_ascii_case(providers[i], id)}
    IN  IF hits = {} THEN None
        ELSE Some(CHOOSE i \in hits : \A j \in hits : i <= j)

WindowPhrase == "does not support explicit chart date windows"

\* a day-count fetch that answers with no series where it has none
default_get_price_history_empty(id) == Ok(<<>>)

\* the default methods of trait PriceProvider
default_get_price_history(id) ==
    Err("Config", "provider '" \o id \o "' does not support chart mode")
default_get_price_history_window(id) ==
    Err("Config", "provider '" \o id \o "' " \o WindowPhrase)
default_search_tickers(id) ==
    Err("Config", "provider '" \o id \o "' does not support ticker search")

\* the providers whose sources override none of the optional methods
OnlyPrices == {"coingecko", "cmc"}

\* ------------------------------------------------------------------ provider/coingecko.rs

CoinTable == {
    <<"btc", "bitcoin", "Bitcoin">>,
    <<"bitcoin", "bitcoin", "Bitcoin">>,
    <<"eth", "ethereum", "Ethereum">>,
    <<"ethereum", "ethereum", "Ethereum">>,
    <<"usdt", "tether", "Tether">>,
    <<"tether", "tether", "Tether">>,
    <<"bnb", "binancecoin", "BNB">>,
    <<"sol", "solana", "Solana">>,
    <<"solana", "solana", "Solana">>,
    <<"xrp", "ripple", "XRP">>,
    <<"ripple", "ripple", "XRP">>,
    <<"usdc", "usd-coin", "USDC">>,
    <<"ada", "cardano", "Cardano">>,
    <<"cardano", "cardano", "Cardano">>,
    <<"doge", "dogecoin", "Dogecoin">>,
    <<"dogecoin", "dogecoin", "Dogecoin">>,
    <<"dot", "polkadot", "Polkadot">>,
    <<"polkadot", "polkadot", "Polkadot">>,
    <<"matic", "matic-network", "Polygon">>,
    <<"polygon", "matic-network", "Polygon">>,
    <<"ltc", "litecoin", "Litecoin">>,
    <<"litecoin", "litecoin", "Litecoin">>,
    <<"avax", "avalanche-2", "Avalanche">>,
    <<"avalanche", "avalanche-2", "Avalanche">>,
    <<"link", "chainlink", "Chainlink">>,
    <<"chainlink", "chainlink", "Chainlink">>,
    <<"atom", "cosmos", "Cosmos">>,
    <<"cosmos", "cosmos", "Cosmos">>,
    <<"uni", "uniswap", "Uniswap">>,
    <<"uniswap", "uniswap", "Uniswap">>,
    <<"xlm", "stellar", "Stellar">>,
    <<"stellar", "stellar", "Stellar">>,
    <<"shib", "shiba-inu", "Shiba Inu">>,
    <<"trx", "tron", "TRON">>,
    <<"tron", "tron", "TRON">>,
    <<"ton", "the-open-network", "Toncoin">>,
    <<"pepe", "pepe", "Pepe">>,
    <<"near", "near", "NEAR">>,
    <<"apt", "aptos", "Aptos">>,
    <<"aptos", "aptos", "Aptos">>,
    <<"arb", "arbitrum", "Arbitrum">>,
    <<"arbitrum", "arbitrum", "Arbitrum">>,
    <<"op", "optimism", "Optimism">>,
    <<"optimism", "optimism", "Optimism">>,
    <<"sui", "sui", "Sui">> }

capitalize(s) ==
    IF s = "" THEN "" ELSE to_uppercase_char(CharAt(s, 1)) \o SubSeq(s, 2, Len(s))

\* CoinGecko::resolve: (API id, display name) of a ticker symbol
resolve(symbol) ==
    LET lower == to_lowercase(symbol)
    IN  IF \E e \in CoinTable : e[1] = lower
        THEN LET e == CHOOSE e \in CoinTable : e[1] = lower IN <<e[2], e[3]>>
        ELSE <<lower, capitalize(lower)>>

\* get(key) of a HashMap<String, f64>
map_get(m, key) == IF key \in DOMAIN m THEN Some(m[key]) ELSE None

\* the loop of lines 107-122 pushing each record in front of the earlier ones
RECURSIVE coingecko_results_last_first(_, _, _, _)
coingecko_results_last_first(symbols, i, data, cur) ==
    IF i > Len(symbols) THEN <<>>
    ELSE LET cg_id == resolve(symbols[i])[1]
             rest  == coingecko_results_last_first(symbols, i + 1, data, cur)
         IN  IF cg_id \in DOMAIN data
             THEN rest \o <<[symbol     |-> to_uppercase(symbols[i]),
                             name       |-> resolve(symbols[i])[2],
                             price      |-> IF cur \in DOMAIN data[cg_id]
                                            THEN data[cg_id][cur] ELSE FZero,
                             change_24h |-> map_get(data[cg_id], cur \o "_24h_change"),
                             market_cap |-> map_get(data[cg_id], cur \o "_market_cap"),
                             currency   |-> to_uppercase(cur),
                             provider   |-> "CoinGecko"]>>
             ELSE rest

\* the loop of lines 107-122: one CoinPrice per input symbol the response holds
RECURSIVE coingecko_results(_, _, _, _)
coingecko_results(symbols, i, data, cur) ==
    IF i > Len(symbols) THEN <<>>
    ELSE LET cg_id == resolve(symbols[i])[1]
             rest  == coingecko_results(symbols, i + 1, data, cur)
         IN  IF cg_id \in DOMAIN data
             THEN <<[symbol     |-> to_uppercase(symbols[i]),
                     name       |-> resolve(symbols[i])[2],
                     price      |-> IF cur \in DOMAIN data[cg_id]
                                    THEN data[cg_id][cur] ELSE FZero,
                     change_24h |-> map_get(data[cg_id], cur \o "_24h_change"),
                     market_cap |-> map_get(data[cg_id], cur \o "_market_cap"),
                     currency   |-> to_uppercase(cur),
                     provider   |-> "CoinGecko"]>> \o rest
             ELSE rest

\* StatusCode::is_success: the code is 2xx
is_success(status) == status # "" /\ CharAt(status, 1) = "2"

\* CoinGecko::get_prices decoding the body before it looks at the status
coingecko_get_prices_body_first(symbols, currency, resp) ==
    LET cur     == to_lowercase(currency)
        results == coingecko_results(symbols, 1, unwrap(resp.data), cur)
    IN  IF ~resp.sent THEN Err("Http", "send")
        ELSE IF resp.data = None THEN Err("Parse", "CoinGecko JSON: " \o resp.raw)
        ELSE IF ~is_success(resp.status)
        THEN Err("Api", "CoinGecko returned " \o resp.status \o ": " \o resp.raw)
        ELSE IF results = <<>> THEN Err("NoResults", "")
        ELSE Ok(results)

\* CoinGecko::get_prices on the HTTP response resp: resp.sent is whether
\* send() and text() succeeded, resp.status the status code, resp.raw the
\* body text and resp.data what serde_json decodes it to (None: no JSON of
\* the expected shape).
coingecko_get_prices(symbols, currency, resp) ==
    LET cur     == to_lowercase(currency)
        results == coingecko_results(symbols, 1, unwrap(resp.data), cur)
    IN  IF ~resp.sent THEN Err("Http", "send")
        ELSE IF ~is_success(resp.status)
        THEN Err("Api", "CoinGecko returned " \o resp.status \o ": " \o resp.raw)
        ELSE IF resp.data = None THEN Err("Parse", "CoinGecko JSON: " \o resp.raw)
        ELSE IF results = <<>> THEN Err("NoResults", "")
        ELSE Ok(results)

\* ------------------------------------------------------------------ provider/coinmarketcap.rs

\* serde_json::from_value of one entry of "data": val.coins holds the objects
\* of the entry (one for a single object, any number for an array), each
\* with valid = whether it decodes as a CmcCoin. The outcome is the coin to
\* use, None for an empty array, or the Parse error of lines 110-118.
cmc_coin(val) ==
    IF \E k \in DOMAIN val.coins : ~val.coins[k].valid
    THEN Err("Parse", IF val.array THEN "CMC coin array: invalid type"
                      ELSE "CMC coin: invalid type")
    ELSE IF val.coins = <<>> THEN Ok(None)
    ELSE Ok(Some(val.coins[1]))

\* the loop of lines 105-134: the records gathered so far, or the first
\* Parse error met
RECURSIVE cmc_results(_, _, _, _)
cmc_results(symbols_upper, i, data, convert) ==
    IF i > Len(symbols_upper) THEN Ok(<<>>)
    ELSE LET sym  == symbols_upper[i]
             rest == cmc_results(symbols_upper, i + 1, data, convert)
             coin == cmc_coin(data[sym])
             c    == unwrap(coin.value)
             q    == c.quote[convert]
         IN  IF sym \notin DOMAIN data THEN rest
             ELSE IF ~coin.ok THEN coin
             ELSE IF coin.value = None \/ convert \notin DOMAIN c.quote THEN rest
             ELSE IF ~rest.ok THEN rest
             ELSE Ok(<<[symbol     |-> c.symbol,
                        name       |-> c.name,
                        price      |-> IF q.price = None THEN FZero ELSE unwrap(q.price),
                        change_24h |-> q.percent_change_24h,
                        market_cap |-> q.market_cap,
                        currency   |-> convert,
                        provider   |-> "CoinMarketCap"]>> \o rest.value)

\* CoinMarketCap::get_prices on the HTTP response resp, held as CoinGecko's
\* is; resp.data decodes to a CmcRawResponse [data, error_message], the
\* latter standing for status.error_message (None when either is absent)
cmc_get_prices(symbols, currency, resp) ==
    LET symbols_upper == [i \in DOMAIN symbols |-> to_uppercase(symbols[i])]
        convert == to_uppercase(currency)
        raw     == unwrap(resp.data)
        results == cmc_results(symbols_upper, 1, raw.data, convert)
    IN  IF ~resp.sent THEN Err("Http", "send")
        ELSE IF ~is_success(resp.status)
        THEN Err("Api", "CoinMarketCap returned " \o resp.status \o ": " \o resp.raw)
        ELSE IF resp.data = None THEN Err("Parse", "CMC JSON: " \o resp.raw)
        ELSE IF raw.error_message # None /\ unwrap(raw.error_message) # ""
        THEN Err("Api", "CoinMarketCap: " \o unwrap(raw.error_message))
        ELSE IF ~results.ok THEN results
        ELSE IF results.value = <<>> THEN Err("NoResults", "")
        ELSE results

\* ------------------------------------------------------------------ main.rs: dates

\* chrono::NaiveDate is a record [y, m, d]; days_from_civil is its day number
\* (days since 1970-01-01), civil_from_days the inverse.
days_from_civil(date) ==
    LET y   == IF date.m <= 2 THEN date.y - 1 ELSE date.y
        era == y \div 400
        yoe == y - era * 400
        mp  == IF date.m > 2 THEN date.m - 3 ELSE date.m + 9
        doy == (153 * mp + 2) \div 5 + date.d - 1
        doe == yoe * 365 + yoe \div 4 - yoe \div 100 + doy
    IN  era * 146097 + doe - 719468

civil_from_days(days) ==
    LET z   == days + 719468
        era == z \div 146097
        doe == z - era * 146097
        yoe == (doe - doe \div 1460 + doe \div 36524 - doe \div 146096) \div 365
        doy == doe - (365 * yoe + yoe \div 4 - yoe \div 100)
        mp  == (5 * doy + 2) \div 153
        m   == IF mp < 10 THEN mp + 3 ELSE mp - 9
    IN  [y |-> yoe + era * 400 + (IF m <= 2 THEN 1 ELSE 0),
         m |-> m,
         d |-> doy - (153 * mp + 2) \div 5 + 1]

is_leap_year(y) == (y % 4 = 0 /\ y % 100 # 0) \/ y % 400 = 0

days_in_month(y, m) ==
    IF m = 2 THEN (IF is_leap_year(y) THEN 29 ELSE 28)
    ELSE IF m \in {4, 6, 9, 11} THEN 30 ELSE 31

\* NaiveDate::MIN, the first date chrono represents
MIN_DATE == [y |-> -262143, m |-> 1, d |-> 1]

\* `NaiveDate - Duration` panics when the difference is before NaiveDate::MIN
sub_days_overflows(date, k) == days_from_civil(date) - k < days_from_civil(MIN_DATE)

\* end_date - chrono::Duration::days(k)
sub_days(date, k) == civil_from_days(days_from_civil(date) - k)

\* NaiveDate::checked_sub_months: the same day of the month n months earlier,
\* clamped to that month's last day; None below chrono's first year (-262143)
checked_sub_months(date, n) ==
    LET total == date.y * 12 + (date.m - 1) - n
        y     == total \div 12
        m     == (total % 12) + 1
        last  == days_in_month(y, m)
    IN  IF y < -262143 THEN None
        ELSE Some([y |-> y, m |-> m, d |-> IF date.d > last THEN last ELSE date.d])

\* Option::or
or_else(a, b) == IF a # None THEN a ELSE b

\* ChartRangeArg::start_date
start_date(interval, end_date) ==
    CASE interval = "1D"  -> Some(sub_days(end_date, 1))
      [] interval = "5D"  -> Some(sub_days(end_date, 5))
      [] interval = "1M"  -> or_else(checked_sub_months(end_date, 1), Some(sub_days(end_date, 30)))
      [] interval = "6M"  -> or_else(checked_sub_months(end_date, 6), Some(sub_days(end_date, 182)))
      [] interval = "YTD" -> Some([y |-> end_date.y, m |-> 1, d |-> 1])
      [] interval = "1Y"  -> or_else(checked_sub_months(end_date, 12), Some(sub_days(end_date, 365)))
      [] interval = "5Y"  -> or_else(checked_sub_months(end_date, 60), Some(sub_days(end_date, 365 * 5)))
      [] interval = "ALL" -> None

\* ChartRangeArg::start_date panics: the argument of Option::or is evaluated
\* before or is called, whatever checked_sub_months returned
start_date_panics(interval, end_date) ==
    CASE interval = "1D"  -> sub_days_overflows(end_date, 1)
      [] interval = "5D"  -> sub_days_overflows(end_date, 5)
      [] interval = "1M"  -> sub_days_overflows(end_date, 30)
      [] interval = "6M"  -> sub_days_overflows(end_date, 182)
      [] interval = "YTD" -> FALSE
      [] interval = "1Y"  -> sub_days_overflows(end_date, 365)
      [] interval = "5Y"  -> sub_days_overflows(end_date, 365 * 5)
      [] interval = "ALL" -> FALSE

\* chrono::Utc::now().date_naive(): the day the invocation runs on
Today == [y |-> 2026, m |-> 2, d |-> 20]

MAX_CHART_FETCH_DAYS == 36500

\* lines 225-234 without the lower bound max(1)
compute_chart_fetch_days_unfloored(start) ==
    IF start = None THEN MAX_CHART_FETCH_DAYS
    ELSE LET span == days_from_civil(Today) - days_from_civil(unwrap(start))
         IN  IF span < MAX_CHART_FETCH_DAYS THEN span ELSE MAX_CHART_FETCH_DAYS

compute_chart_fetch_days(start) ==
    IF start = None THEN MAX_CHART_FETCH_DAYS
    ELSE LET span == days_from_civil(Today) - days_from_civil(unwrap(start))
             days == IF span > 1 THEN span ELSE 1
         IN  IF days < MAX_CHART_FETCH_DAYS THEN days ELSE MAX_CHART_FETCH_DAYS

\* date.and_hms_opt(h, m, s).and_utc(): seconds since the epoch
and_hms(date, h, m, s) == days_from_civil(date) * 86400 + h * 3600 + m * 60 + s

\* ------------------------------------------------------------------ main.rs: windowing

\* Vec::retain keeps the elements satisfying its closure, in their order: SelectSeq

\* the closure of line 243 with the end bound exclusive
point_before_end(point, start, end) ==
    point.timestamp < end /\ (IF start = None THEN TRUE ELSE point.timestamp >= unwrap(start))

\* the closure of line 243: timestamp <= end && start.map(|s| timestamp >= s).unwrap_or(true)
point_in_window(point, start, end) ==
    point.timestamp <= end /\ (IF start = None THEN TRUE ELSE point.timestamp >= unwrap(start))

\* lines 241-247 with the scan of each series starting at its second point
filter_from_second_point(hs, start, end) ==
    LET keepPoint(p) == point_in_window(p, start, end)
        clipped == [i \in DOMAIN hs |->
                       [hs[i] EXCEPT !.points =
                           IF hs[i].points = <<>> THEN <<>>
                           ELSE SelectSeq(Tail(hs[i].points), keepPoint)]]
        keepHistory(h) == h.points # <<>>
    IN  SelectSeq(clipped, keepHistory)

filter_histories_by_time_window(hs, start, end) ==
    LET keepPoint(p) == point_in_window(p, start, end)
        clipped == [i \in DOMAIN hs |->
                       [hs[i] EXCEPT !.points = SelectSeq(hs[i].points, keepPoint)]]
        keepHistory(h) == h.points # <<>>
    IN  SelectSeq(clipped, keepHistory)

\* ------------------------------------------------------------------ main.rs: run()

\* .map(|s| s.trim().to_string()).filter(|s| !s.is_empty())
nonempty_trimmed(tokens) ==
    LET keep(t) == t # "" IN SelectSeq([i \in DOMAIN tokens |-> trim(tokens[i])], keep)

resolve_search_query(c) ==
    IF c.search # None THEN Some(trim(unwrap(c.search)))
    ELSE IF c.symbols # <<>> /\ eq_ignore_ascii_case(c.symbols[1], "search")
    THEN LET tokens == nonempty_trimmed(Tail(c.symbols))
             rest   == IF tokens # <<>> /\ eq_ignore_ascii_case(tokens[1], "search")
                       THEN Tail(tokens) ELSE tokens
         IN  Some(trim(join(rest, " ")))
    ELSE None

\* config::DEFAULT_CURRENCY stands behind --currency and the config file
DEFAULT_CURRENCY == "usd"
currency == IF cli.currency # None THEN unwrap(cli.currency) ELSE DEFAULT_CURRENCY

search_query == resolve_search_query(cli)
chart_end_date == IF cli.end_date # None THEN unwrap(cli.end_date) ELSE Today
chart_start_date == or_else(cli.start_date, start_date(cli.interval, chart_end_date))
chart_start_ts ==
    IF chart_start_date = None THEN None
    ELSE Some(and_hms(unwrap(chart_start_date), 0, 0, 0))
chart_end_ts == and_hms(chart_end_date, 23, 59, 59)
\* line 357 counting the days back from the end date instead of today
chart_fetch_days_to_end ==
    IF chart_start_date = None THEN MAX_CHART_FETCH_DAYS
    ELSE LET span == days_from_civil(chart_end_date) - days_from_civil(unwrap(chart_start_date))
             days == IF span > 1 THEN span ELSE 1
         IN  IF days < MAX_CHART_FETCH_DAYS THEN days ELSE MAX_CHART_FETCH_DAYS
chart_fetch_days == compute_chart_fetch_days(chart_start_date)

upper_all(list) == [i \in DOMAIN list |-> to_uppercase(list[i])]

\* Iterator::partition (lines 441-442): the fiat targets, the others
partition_swapped(targets) ==
    LET fiat(t) == is_known_fiat(t)
        other(t) == ~is_known_fiat(t)
    IN  <<SelectSeq(targets, other), SelectSeq(targets, fiat)>>
partition(targets) ==
    LET fiat(t) == is_known_fiat(t)
        other(t) == ~is_known_fiat(t)
    IN  <<SelectSeq(targets, fiat), SelectSeq(targets, other)>>

fiat == unwrap(parse_fiat_amount(cli.symbols[1]))
targets == Tail(cli.symbols)
fiat_targets == partition(targets)[1]
crypto_targets == partition(targets)[2]

provider_idx == get_provider(ProviderIds, cli.provider)
prov == ProviderIds[unwrap(provider_idx)]

\* how far the checks at the head of run() let the invocation go
PastListing  == ~cli.list_providers
PastSearch   == PastListing /\ search_query = None
PastSymbols  == PastSearch /\ cli.symbols # <<>>
\* run() going on past line 335 whatever the end date
PastEndDateUnchecked == PastSymbols
PastEndDate  == PastSymbols /\ ~(days_from_civil(chart_end_date) > days_from_civil(Today))
StartResolved ==
    PastEndDate /\ ~(cli.start_date = None /\ start_date_panics(cli.interval, chart_end_date))
PastDates    ==
    /\ StartResolved
    /\ ~(/\ chart_start_date # None
         /\ days_from_civil(unwrap(chart_start_date)) > days_from_civil(chart_end_date))
InFiatChart  == PastDates /\ cli.chart /\ is_known_fiat(cli.symbols[1])
PastFiatChart == PastDates /\ ~(cli.chart /\ is_known_fiat(cli.symbols[1]))
PastProvider == PastFiatChart /\ provider_idx # None
InCalc       == PastProvider /\ parse_fiat_amount(cli.symbols[1]) # None
\* calc mode going on to its fetches without the chart test of lines 426-430
InCalcFetchWithChart == InCalc /\ targets # <<>>
InCalcFetch  == InCalc /\ ~cli.chart /\ targets # <<>>
PastCalc     == PastProvider /\ parse_fiat_amount(cli.symbols[1]) = None

NoOutput == [kind |-> "none", data |-> <<>>]

\* run() returns r without having printed or requested anything more
Return(r) ==
    /\ pc' = "done"
    /\ result' = r
    /\ UNCHANGED <<cli, out, requests, fiat_result, crypto_result, conversions,
                   histories, fetched, window_result, lexVars, filterVars, dateVars, provVars>>

\* run() prints data and returns Ok(())
PrintAndReturn(kind, data) ==
    /\ pc' = "done"
    /\ result' = Ok(<<>>)
    /\ out' = [kind |-> kind, data |-> data]

\* a request goes out and run() suspends at the await named by at
Issue(at, request) ==
    /\ pc' = at
    /\ requests' = Append(requests, request)
    /\ UNCHANGED <<cli, result, out, fiat_result, crypto_result, conversions,
                   histories, fetched, window_result, lexVars, filterVars, dateVars, provVars>>

unknown_provider_error ==
    Err("Config", "unknown provider '" \o cli.provider
                  \o "' -- use --list-providers to see options")

\* lines 283-289
ListProviders ==
    /\ pc = "start"
    /\ cli.list_providers
    /\ PrintAndReturn("providers", ProviderIds)
    /\ UNCHANGED <<cli, requests, fiat_result, crypto_result, conversions,
                   histories, fetched, window_result, lexVars, filterVars, dateVars, provVars>>

\* lines 291-297
SearchEmptyQuery ==
    /\ pc = "start"
    /\ PastListing /\ search_query # None
    /\ unwrap(search_query) = ""
    /\ Return(Err("Config", "search mode requires a query -- usage: cryptoprice --provider stooq --search apple"))

\* lines 299-304
SearchUnknownProvider ==
    /\ pc = "start"
    /\ PastListing /\ search_query # None
    /\ unwrap(search_query) # ""
    /\ provider_idx = None
    /\ Return(unknown_provider_error)

\* lines 305-311, up to the await
SearchIssue ==
    /\ pc = "start"
    /\ PastListing /\ search_query # None
    /\ unwrap(search_query) # ""
    /\ provider_idx # None
    /\ Issue("search", [svc |-> prov, op |-> "search_tickers",
                        args |-> <<unwrap(search_query)>>])

\* lines 322-326
NoSymbols ==
    /\ pc = "start"
    /\ PastSearch /\ cli.symbols = <<>>
    /\ Return(Err("Config", "no symbols provided -- usage: cryptoprice btc eth"))

\* lines 328-335
EndDateInFuture ==
    /\ pc = "start"
    /\ PastSymbols /\ ~PastEndDate
    /\ Return(Err("Config", "chart end date cannot be in the future"))

\* lines 337-339: the closure of or_else calls start_date, which panics
StartDatePanics ==
    /\ pc = "start"
    /\ PastEndDate /\ ~StartResolved
    /\ Return(Panic("NaiveDate - TimeDelta overflowed"))

\* lines 337-346
StartAfterEnd ==
    /\ pc = "start"
    /\ StartResolved /\ ~PastDates
    /\ Return(Err("Config", "chart start date cannot be after chart end date"))

\* lines 359-368
FiatChartNoTargets ==
    /\ pc = "start"
    /\ InFiatChart
    /\ targets = <<>>
    /\ Return(Err("Config", "fiat chart mode requires a base and at least one target currency -- usage: cryptoprice --chart usd eur"))

\* lines 370-374
FiatChartNonFiatTarget ==
    /\ pc = "start"
    /\ InFiatChart
    /\ targets # <<>>
    /\ \E i \in DOMAIN targets : ~is_known_fiat(to_uppercase(targets[i]))
    /\ Return(Err("Config", "fiat chart mode only supports fiat currency codes (example: usd eur gbp)"))

\* lines 376-381
FiatChartHourly ==
    /\ pc = "start"
    /\ InFiatChart
    /\ targets # <<>>
    /\ \A i \in DOMAIN targets : is_known_fiat(to_uppercase(targets[i]))
    /\ cli.sampling = "Hourly"
    /\ Return(Err("Config", "fiat chart mode supports daily history only -- use --sampling auto or --sampling daily"))

\* lines 393-396 reached without the sampling check of lines 376-381
FiatChartIssueAnySampling ==
    /\ pc = "start"
    /\ InFiatChart
    /\ targets # <<>>
    /\ \A i \in DOMAIN targets : is_known_fiat(to_uppercase(targets[i]))
    /\ Issue("fiat_history",
             [svc |-> "Frankfurter", op |-> "get_history",
              args |-> <<to_uppercase(cli.symbols[1]), upper_all(targets), chart_fetch_days>>])

\* lines 393-396, up to the await
FiatChartIssue ==
    /\ pc = "start"
    /\ InFiatChart
    /\ targets # <<>>
    /\ \A i \in DOMAIN targets : is_known_fiat(to_uppercase(targets[i]))
    /\ cli.sampling # "Hourly"
    /\ Issue("fiat_history",
             [svc |-> "Frankfurter", op |-> "get_history",
              args |-> <<to_uppercase(cli.symbols[1]), upper_all(targets), chart_fetch_days>>])

\* lines 415-420
UnknownProvider ==
    /\ pc = "start"
    /\ PastFiatChart
    /\ provider_idx = None
    /\ Return(unknown_provider_error)

\* lines 425-430
CalcWithChart ==
    /\ pc = "start"
    /\ InCalc
    /\ cli.chart
    /\ Return(Err("Config", "chart mode is only available for direct symbol lookup"))

\* lines 432-438
CalcNoTargets ==
    /\ pc = "start"
    /\ InCalc
    /\ ~cli.chart
    /\ targets = <<>>
    /\ Return(Err("Config", "calc mode requires at least one target coin -- usage: cryptoprice 3.5EUR xmr"))

\* ---- what the remote services may answer

\* the FX service's answer to /latest: the status outcome and the decoded
\* "rates" object over any of the requested codes and one that was not asked for
FxRate(code) ==
    CASE code = "EUR" -> Rat(17, 20)
      [] code = "GBP" -> Rat(3, 4)
      [] OTHER        -> Rat(150, 1)
FxResponses(to) ==
    LET keys == {to_uppercase(to[i]) : i \in DOMAIN to} \cup {"JPY"}
    IN  {[status_ok |-> FALSE, body |-> None], [status_ok |-> TRUE, body |-> None]}
        \cup {[status_ok |-> TRUE, body |-> Some([k \in S |-> FxRate(k)])] : S \in SUBSET keys}

\* Frankfurter::get_rates, as calc.rs holds it
get_rates(from, to, resp) == fetch_fiat_rates(from, to, resp)

\* CoinGecko's answer to /simple/price: any subset of the requested ids, each
\* with or without a price in the requested currency
CoinPriceOf(id) ==
    CASE id = "bitcoin"  -> Rat(50000, 1)
      [] id = "ethereum" -> Rat(3000, 1)
      [] OTHER           -> Rat(5, 2)
CoinGeckoResponses(symbols, cur) ==
    LET ids == {resolve(symbols[i])[1] : i \in DOMAIN symbols}
        coin(id, priced) ==
            IF priced THEN [k \in {to_lowercase(cur)} |-> CoinPriceOf(id)]
            ELSE [k \in {to_lowercase(cur) \o "_market_cap"} |-> CoinPriceOf(id)]
    IN  {[sent |-> FALSE, status |-> "", raw |-> "", data |-> None],
         [sent |-> TRUE, status |-> "429 Too Many Requests", raw |-> "rate limited", data |-> None],
         [sent |-> TRUE, status |-> "200 OK", raw |-> "{not-json", data |-> None]}
        \cup {[sent |-> TRUE, status |-> "200 OK", raw |-> "{..}",
               data |-> Some([id \in S |-> coin(id, priced)])] :
                 S \in SUBSET ids, priced \in BOOLEAN}

\* a provider whose source is absent answers get_prices as the contract of
\* CoinPrice says: one price per resolved symbol or an error
TraitPriceResults(p, symbols, cur) ==
    {Err("Api", p \o " returned 500"), Err("NoResults", ""),
     Ok([i \in DOMAIN symbols |->
            [symbol |-> to_uppercase(symbols[i]), name |-> symbols[i],
             price |-> CoinPriceOf(to_lowercase(symbols[i])),
             change_24h |-> None, market_cap |-> None,
             currency |-> to_uppercase(cur), provider |-> p]])}

\* CoinMarketCap's answer to /cryptocurrency/quotes/latest: per requested
\* symbol no entry, a coin quoted in the requested currency or in another,
\* an entry that is no coin, or an array (empty, of two coins, or ending in
\* an entry that is no coin); with or without an error message
CmcQuoteOf(price) == [price |-> price, percent_change_24h |-> None, market_cap |-> None]
CmcCoinOf(sym, name, cur, price) ==
    [valid |-> TRUE, name |-> name, symbol |-> sym, quote |-> [k \in {cur} |-> CmcQuoteOf(price)]]
NoCoin == [valid |-> FALSE, name |-> "", symbol |-> "", quote |-> [k \in {"USD"} |-> CmcQuoteOf(None)]]
CmcValues(sym, convert) ==
    LET priced == CmcCoinOf(sym, "Coin " \o sym, convert, Some(CoinPriceOf(to_lowercase(sym))))
        bare   == CmcCoinOf(sym, "Coin " \o sym, convert, None)
        other  == CmcCoinOf(sym, "Other " \o sym, "JPY", Some(Rat(7, 1)))
    IN  {[array |-> FALSE, coins |-> <<priced>>],
         [array |-> FALSE, coins |-> <<other>>],
         [array |-> FALSE, coins |-> <<NoCoin>>],
         [array |-> TRUE, coins |-> <<>>],
         [array |-> TRUE, coins |-> <<bare, other>>],
         [array |-> TRUE, coins |-> <<priced, NoCoin>>]}
CmcData(symbols, cur) ==
    LET keys == {to_uppercase(symbols[i]) : i \in DOMAIN symbols}
    IN  UNION {[S -> UNION {CmcValues(k, to_uppercase(cur)) : k \in S}] : S \in SUBSET keys}
CmcResponses(symbols, cur) ==
    {[sent |-> FALSE, status |-> "", raw |-> "", data |-> None],
     [sent |-> TRUE, status |-> "401 Unauthorized", raw |-> "unauthorized", data |-> None],
     [sent |-> TRUE, status |-> "200 OK", raw |-> "{not-json", data |-> None]}
    \cup {[sent |-> TRUE, status |-> "200 OK", raw |-> "{..}",
           data |-> Some([data |-> d, error_message |-> e])] :
             d \in {m \in CmcData(symbols, cur) : \A k \in DOMAIN m : m[k].coins = <<>> \/ m[k].coins[1].symbol \in {k, ""}},
             e \in {None, Some(""), Some("Invalid API key")}}

PriceResponses(p, symbols, cur) ==
    IF p = "coingecko" THEN CoinGeckoResponses(symbols, cur)
    ELSE IF p = "cmc" THEN CmcResponses(symbols, cur)
    ELSE TraitPriceResults(p, symbols, cur)

\* PriceProvider::get_prices of provider p
get_prices(p, symbols, cur, resp) ==
    IF p = "coingecko" THEN coingecko_get_prices(symbols, cur, resp)
    ELSE IF p = "cmc" THEN cmc_get_prices(symbols, cur, resp)
    ELSE resp

\* the point lists a history answer may hold around the window [start, end]:
\* none, the four points at and next to the bounds, one point past the end
PointSamples(start, end) ==
    LET at(ts) == [timestamp |-> ts, price |-> Rat(3, 2)]
    IN  {<<>>,
         IF start = None THEN <<at(end - 1), at(end), at(end + 1)>>
         ELSE <<at(unwrap(start) - 1), at(unwrap(start)), at(end), at(end + 1)>>,
         <<at(end + 1)>>}

SeriesSamples(p, symbols, cur, start, end) ==
    {[i \in DOMAIN symbols |->
         [symbol |-> to_uppercase(symbols[i]), name |-> symbols[i],
          currency |-> to_uppercase(cur), provider |-> p, points |-> pts[i]]] :
       pts \in [DOMAIN symbols -> PointSamples(start, end)]}

\* a history method whose source is absent answers with any Result the trait
\* allows: a list of series, or an error of any kind and wording
HistoryResults(p, symbols, cur, start, end) ==
    {Ok(h) : h \in SeriesSamples(p, symbols, cur, start, end) \cup {<<>>}}
    \cup {default_get_price_history_window(p), default_get_price_history(p),
          Err("Api", p \o " returned 400: " \o WindowPhrase),
          Err("Parse", p \o " JSON"), Err("NoResults", "")}

\* PriceProvider::get_price_history_window and get_price_history of provider p
get_price_history_window(p, resp) ==
    IF p \in OnlyPrices THEN default_get_price_history_window(p) ELSE resp
get_price_history(p, resp) ==
    IF p \in OnlyPrices THEN default_get_price_history(p) ELSE resp

HistoryResponses(p) ==
    IF p \in OnlyPrices THEN {Ok(<<>>)}
    ELSE HistoryResults(p, cli.symbols, currency, chart_start_ts, chart_end_ts)

\* PriceProvider::search_tickers of provider p
search_tickers(p, resp) ==
    IF p \in OnlyPrices THEN default_search_tickers(p) ELSE resp
SearchResponses(p) ==
    IF p \in OnlyPrices THEN {Ok(<<>>)}
    ELSE {Ok(<<>>), Ok(<<[symbol |-> "AAPL.US", provider |-> p]>>),
          default_search_tickers(p), Err("Api", p \o " returned 500")}

\* ---- search mode

\* lines 309-319, from the await on
SearchReturn ==
    /\ pc = "search"
    /\ \E resp \in SearchResponses(prov) :
         LET r == search_tickers(prov, resp)
         IN  /\ pc' = "done"
             /\ result' = IF r.ok THEN Ok(<<>>) ELSE r
             /\ out' = IF r.ok THEN [kind |-> "tickers", data |-> r.value] ELSE out
    /\ UNCHANGED <<cli, requests, fiat_result, crypto_result, conversions,
                   histories, fetched, window_result, lexVars, filterVars, dateVars, provVars>>

\* ---- chart mode

\* lines 397-412 and 581-596: window, reject an empty list, print
\* lines 581-596 without the is_empty test of lines 582-584
FinishChartUnguarded(r) ==
    LET filtered == filter_histories_by_time_window(r.value, chart_start_ts, chart_end_ts)
    IN  /\ pc' = "done"
        /\ fetched' = Some(r.value)
        /\ histories' = filtered
        /\ result' = Ok(<<>>)
        /\ out' = [kind |-> "history", data |-> filtered]

FinishChart(r) ==
    LET filtered == filter_histories_by_time_window(r.value, chart_start_ts, chart_end_ts)
    IN  /\ pc' = "done"
        /\ fetched' = Some(r.value)
        /\ histories' = filtered
        /\ result' = IF filtered = <<>> THEN Err("NoResults", "") ELSE Ok(<<>>)
        /\ out' = IF filtered = <<>> THEN out ELSE [kind |-> "history", data |-> filtered]

FailChart(r) ==
    /\ pc' = "done"
    /\ result' = r
    /\ UNCHANGED <<out, histories, fetched>>

\* lines 394-412 printing what the FX source answered, as fetched
FiatChartReturnAsFetched ==
    /\ pc = "fiat_history"
    /\ \E r \in HistoryResults("Frankfurter/ECB", upper_all(targets), to_uppercase(cli.symbols[1]),
                               chart_start_ts, chart_end_ts) :
         IF r.ok
         THEN /\ pc' = "done"
              /\ fetched' = Some(r.value)
              /\ histories' = r.value
              /\ result' = IF r.value = <<>> THEN Err("NoResults", "") ELSE Ok(<<>>)
              /\ out' = IF r.value = <<>> THEN out ELSE [kind |-> "history", data |-> r.value]
         ELSE FailChart(r)
    /\ UNCHANGED <<cli, requests, fiat_result, crypto_result, conversions,
                   window_result, lexVars, filterVars, dateVars, provVars>>

\* lines 394-412, from the await on
FiatChartReturn ==
    /\ pc = "fiat_history"
    /\ \E r \in HistoryResults("Frankfurter/ECB", upper_all(targets), to_uppercase(cli.symbols[1]),
                               chart_start_ts, chart_end_ts) :
         IF r.ok THEN FinishChart(r) ELSE FailChart(r)
    /\ UNCHANGED <<cli, requests, fiat_result, crypto_result, conversions,
                   window_result, lexVars, filterVars, dateVars, provVars>>

\* lines 545-565, up to the await
ChartWindowIssue ==
    /\ pc = "start"
    /\ PastCalc
    /\ cli.chart
    /\ Issue("window", [svc |-> prov, op |-> "get_price_history_window",
                        args |-> <<cli.symbols, currency, chart_start_ts,
                                   chart_end_ts, cli.sampling>>])

\* the guard of lines 568-569 without its message test
is_config_error(r) == r.kind = "Config"

\* the guard of lines 568-569
is_window_unsupported(r) == r.kind = "Config" /\ contains(r.msg, WindowPhrase)

history_request ==
    [svc |-> prov, op |-> "get_price_history",
     args |-> <<cli.symbols, currency, chart_fetch_days, cli.sampling>>]

\* lines 566-596, from the await on: the match on the window fetch's result
ChartWindowReturn ==
    /\ pc = "window"
    /\ \E resp \in HistoryResponses(prov) :
         LET r == get_price_history_window(prov, resp)
         IN  /\ window_result' = Some(r)
             /\ IF r.ok THEN FinishChart(r) /\ UNCHANGED requests
                ELSE IF is_window_unsupported(r)
                THEN /\ pc' = "history"
                     /\ requests' = Append(requests, history_request)
                     /\ UNCHANGED <<result, out, histories, fetched>>
                ELSE FailChart(r) /\ UNCHANGED requests
    /\ UNCHANGED <<cli, fiat_result, crypto_result, conversions, lexVars, filterVars, dateVars, provVars>>

\* lines 571-596 with the day-count fetch issued again when it fails
ChartHistoryReturnRetrying ==
    /\ pc = "history"
    /\ \E resp \in HistoryResponses(prov) :
         LET r == get_price_history(prov, resp)
         IN  IF r.ok THEN FinishChart(r) /\ UNCHANGED requests
             ELSE IF Len(requests) < 3
             THEN /\ requests' = Append(requests, history_request)
                  /\ UNCHANGED <<pc, result, out, histories, fetched>>
             ELSE FailChart(r) /\ UNCHANGED requests
    /\ UNCHANGED <<cli, fiat_result, crypto_result, conversions,
                   window_result, lexVars, filterVars, dateVars, provVars>>

\* lines 571-596, from the await of the day-count fetch on
ChartHistoryReturn ==
    /\ pc = "history"
    /\ \E resp \in HistoryResponses(prov) :
         LET r == get_price_history(prov, resp)
         IN  IF r.ok THEN FinishChart(r) ELSE FailChart(r)
    /\ UNCHANGED <<cli, requests, fiat_result, crypto_result, conversions,
                   window_result, lexVars, filterVars, dateVars, provVars>>

\* ---- price mode

\* line 606, up to the await
PricesIssue ==
    /\ pc = "start"
    /\ PastCalc
    /\ ~cli.chart
    /\ Issue("prices", [svc |-> prov, op |-> "get_prices",
                        args |-> <<cli.symbols, currency>>])

\* lines 606-614, from the await on
PricesReturn ==
    /\ pc = "prices"
    /\ \E resp \in PriceResponses(prov, cli.symbols, currency) :
         LET r == get_prices(prov, cli.symbols, currency, resp)
         IN  /\ pc' = "done"
             /\ result' = IF r.ok THEN Ok(<<>>) ELSE r
             /\ out' = IF r.ok THEN [kind |-> "prices", data |-> r.value] ELSE out
    /\ UNCHANGED <<cli, requests, fiat_result, crypto_result, conversions,
                   histories, fetched, window_result, lexVars, filterVars, dateVars, provVars>>

\* ---- calc mode

FX_LABEL == "Frankfurter/ECB"

\* lines 465-479 with the rate stored as received rather than inverted
RECURSIVE join_fiat_conversions_rate_as_received(_, _, _)
join_fiat_conversions_rate_as_received(f, fts, rates) ==
    IF fts = <<>> THEN <<>>
    ELSE LET upper == to_uppercase(fts[1])
             rest  == join_fiat_conversions_rate_as_received(f, Tail(fts), rates)
         IN  IF upper \in DOMAIN rates
             THEN <<[from_amount   |-> f.amount,
                     from_currency |-> f.currency,
                     to_symbol     |-> upper,
                     to_name       |-> fiat_name(upper),
                     to_amount     |-> FMul(f.amount, rates[upper]),
                     rate          |-> rates[upper],
                     provider      |-> FX_LABEL]>> \o rest
             ELSE rest

\* lines 465-479: the fiat conversions of the concurrent branch
RECURSIVE join_fiat_conversions(_, _, _)
join_fiat_conversions(f, fts, rates) ==
    IF fts = <<>> THEN <<>>
    ELSE LET upper == to_uppercase(fts[1])
             rest  == join_fiat_conversions(f, Tail(fts), rates)
         IN  IF upper \in DOMAIN rates
             THEN <<[from_amount   |-> f.amount,
                     from_currency |-> f.currency,
                     to_symbol     |-> upper,
                     to_name       |-> fiat_name(upper),
                     to_amount     |-> FMul(f.amount, rates[upper]),
                     rate          |-> FDiv(FOne, rates[upper]),
                     provider      |-> FX_LABEL]>> \o rest
             ELSE rest

\* lines 482-493: the crypto conversions of the concurrent branch
join_crypto_conversions(f, prices) ==
    [i \in DOMAIN prices |->
        [from_amount   |-> f.amount,
         from_currency |-> f.currency,
         to_symbol     |-> prices[i].symbol,
         to_name       |-> prices[i].name,
         to_amount     |-> FDiv(f.amount, prices[i].price),
         rate          |-> prices[i].price,
         provider      |-> prices[i].provider]]

\* lines 500-514 with the loop ending at the first target without a rate
RECURSIVE only_fiat_conversions_until_absent(_, _, _)
only_fiat_conversions_until_absent(f, fts, rates) ==
    IF fts = <<>> THEN <<>>
    ELSE LET upper == to_uppercase(fts[1])
             rest  == only_fiat_conversions_until_absent(f, Tail(fts), rates)
         IN  IF upper \in DOMAIN rates
             THEN <<[from_amount   |-> f.amount,
                     from_currency |-> f.currency,
                     to_symbol     |-> upper,
                     to_name       |-> fiat_name(upper),
                     to_amount     |-> FMul(f.amount, rates[upper]),
                     rate          |-> FDiv(FOne, rates[upper]),
                     provider      |-> FX_LABEL]>> \o rest
             ELSE <<>>

\* lines 500-514: the conversions of the fiat-only branch
RECURSIVE only_fiat_conversions(_, _, _)
only_fiat_conversions(f, fts, rates) ==
    IF fts = <<>> THEN <<>>
    ELSE LET upper == to_uppercase(fts[1])
             rest  == only_fiat_conversions(f, Tail(fts), rates)
         IN  IF upper \in DOMAIN rates
             THEN <<[from_amount   |-> f.amount,
                     from_currency |-> f.currency,
                     to_symbol     |-> upper,
                     to_name       |-> fiat_name(upper),
                     to_amount     |-> FMul(f.amount, rates[upper]),
                     rate          |-> FDiv(FOne, rates[upper]),
                     provider      |-> FX_LABEL]>> \o rest
             ELSE rest

\* lines 519-530: the conversions of the crypto-only branch
only_crypto_conversions(f, prices) ==
    [i \in DOMAIN prices |->
        [from_amount   |-> f.amount,
         from_currency |-> f.currency,
         to_symbol     |-> prices[i].symbol,
         to_name       |-> prices[i].name,
         to_amount     |-> FDiv(f.amount, prices[i].price),
         rate          |-> prices[i].price,
         provider      |-> prices[i].provider]]

rates_request ==
    [svc |-> "Frankfurter", op |-> "get_rates", args |-> <<fiat.currency, fiat_targets>>]
prices_request ==
    [svc |-> prov, op |-> "get_prices", args |-> <<crypto_targets, fiat.currency>>]

\* lines 458-462: both futures are made and join! polls them, the FX one
\* first; each request is out when run() suspends
CalcJoinIssue ==
    /\ pc = "start"
    /\ InCalcFetch
    /\ fiat_targets # <<>> /\ crypto_targets # <<>>
    /\ pc' = "join"
    /\ requests' = requests \o <<rates_request, prices_request>>
    /\ UNCHANGED <<cli, result, out, fiat_result, crypto_result, conversions,
                   histories, fetched, window_result, lexVars, filterVars, dateVars, provVars>>

\* the FX future of join! completes
FiatLegComplete ==
    /\ pc = "join"
    /\ fiat_result = None
    /\ \E resp \in FxResponses(fiat_targets) :
         fiat_result' = Some(get_rates(fiat.currency, fiat_targets, resp))
    /\ UNCHANGED <<cli, pc, result, out, requests, crypto_result, conversions,
                   histories, fetched, window_result, lexVars, filterVars, dateVars, provVars>>

\* the price future of join! completes
CryptoLegComplete ==
    /\ pc = "join"
    /\ crypto_result = None
    /\ \E resp \in PriceResponses(prov, crypto_targets, fiat.currency) :
         crypto_result' = Some(get_prices(prov, crypto_targets, fiat.currency, resp))
    /\ UNCHANGED <<cli, pc, result, out, requests, fiat_result, conversions,
                   histories, fetched, window_result, lexVars, filterVars, dateVars, provVars>>

\* lines 464 and 481: fiat_result? is applied before crypto_result?
\* the two ? of lines 464 and 481 with the price result unwrapped first
join_question_crypto_first(fr, cr) == IF ~cr.ok THEN cr ELSE IF ~fr.ok THEN fr ELSE Ok(<<>>)
join_question_fiat_only(fr, cr) == IF ~fr.ok THEN fr ELSE Ok(<<>>)
join_question(fr, cr) == IF ~fr.ok THEN fr ELSE IF ~cr.ok THEN cr ELSE Ok(<<>>)

\* lines 464-493: the Vec after both loops have pushed
join_conversions_crypto_first(f, fts, rates, prices) ==
    join_crypto_conversions(f, prices) \o join_fiat_conversions(f, fts, rates)
join_conversions(f, fts, rates, prices) ==
    join_fiat_conversions(f, fts, rates) \o join_crypto_conversions(f, prices)

\* lines 462-494 and 536-542: join! returns once both futures are complete
CalcJoinReturn ==
    /\ pc = "join"
    /\ fiat_result # None /\ crypto_result # None
    /\ LET fr == unwrap(fiat_result)
           cr == unwrap(crypto_result)
           fiat_part == join_fiat_conversions(fiat, fiat_targets, fr.value)
           all == join_conversions(fiat, fiat_targets, fr.value, cr.value)
       IN  /\ pc' = "done"
           /\ conversions' = IF ~fr.ok THEN conversions
                             ELSE IF ~cr.ok THEN fiat_part ELSE all
           /\ result' = join_question(fr, cr)
           /\ out' = IF fr.ok /\ cr.ok THEN [kind |-> "conversions", data |-> all] ELSE out
    /\ UNCHANGED <<cli, requests, fiat_result, crypto_result, histories, fetched, window_result,
                   lexVars, filterVars, dateVars, provVars>>

\* lines 496-499 with the price request made as in the concurrent branch
CalcFiatIssueWithPrices ==
    /\ pc = "start"
    /\ InCalcFetch
    /\ fiat_targets # <<>> /\ crypto_targets = <<>>
    /\ pc' = "calc_fiat"
    /\ requests' = requests \o <<rates_request, prices_request>>
    /\ UNCHANGED <<cli, result, out, fiat_result, crypto_result, conversions,
                   histories, fetched, window_result, lexVars, filterVars, dateVars, provVars>>

\* lines 496-499, up to the await
CalcFiatIssue ==
    /\ pc = "start"
    /\ InCalcFetch
    /\ fiat_targets # <<>> /\ crypto_targets = <<>>
    /\ Issue("calc_fiat", rates_request)

\* lines 497-515 and 536-542, from the await on
CalcFiatReturn ==
    /\ pc = "calc_fiat"
    /\ \E resp \in FxResponses(fiat_targets) :
         LET r == get_rates(fiat.currency, fiat_targets, resp)
             built == only_fiat_conversions(fiat, fiat_targets, r.value)
         IN  /\ pc' = "done"
             /\ fiat_result' = Some(r)
             /\ conversions' = IF r.ok THEN built ELSE conversions
             /\ result' = IF r.ok THEN Ok(<<>>) ELSE r
             /\ out' = IF r.ok THEN [kind |-> "conversions", data |-> built] ELSE out
    /\ UNCHANGED <<cli, requests, crypto_result, histories, fetched, window_result, lexVars, filterVars, dateVars, provVars>>

\* lines 517-518, up to the await
CalcCryptoIssue ==
    /\ pc = "start"
    /\ InCalcFetch
    /\ fiat_targets = <<>> /\ crypto_targets # <<>>
    /\ Issue("calc_crypto", prices_request)

\* lines 518-531 and 536-542, from the await on
CalcCryptoReturn ==
    /\ pc = "calc_crypto"
    /\ \E resp \in PriceResponses(prov, crypto_targets, fiat.currency) :
         LET r == get_prices(prov, crypto_targets, fiat.currency, resp)
             built == only_crypto_conversions(fiat, r.value)
         IN  /\ pc' = "done"
             /\ crypto_result' = Some(r)
             /\ conversions' = IF r.ok THEN built ELSE conversions
             /\ result' = IF r.ok THEN Ok(<<>>) ELSE r
             /\ out' = IF r.ok THEN [kind |-> "conversions", data |-> built] ELSE out
    /\ UNCHANGED <<cli, requests, fiat_result, histories, fetched, window_result, lexVars, filterVars, dateVars, provVars>>

\* ------------------------------------------------------------------ inputs

SeqsUpTo(S, n) == UNION {[1..k -> S] : k \in 0..n}

MaxTargets == 3
MaxSymbols == 2

AmountTokens == {"2.5usd"}
TargetTokens == {"EUR", "gbp", "btc", "ETH"}
SymbolTokens == {"usd", "EUR", "btc", "eth"}
ProviderArgs == {"CoinGecko", "nope"}
ChartProviderArgs == {"CoinGecko", "yahoo", "cmc", "nope"}
EndDateArgs == {None, Some([y |-> 2026, m |-> 1, d |-> 31]), Some([y |-> 2026, m |-> 2, d |-> 21])}
StartDateArgs == {None, Some([y |-> 2026, m |-> 2, d |-> 1])}
\* start dates 36500 days before Today, one day more and many more; end dates
\* before Today
OldStartDateArgs == {Some([y |-> 1926, m |-> 3, d |-> 17]), Some([y |-> 1926, m |-> 3, d |-> 16]),
                     Some([y |-> 1910, m |-> 1, d |-> 1])}
OldEndDateArgs == {None, Some([y |-> 1950, m |-> 1, d |-> 1])}
IntervalArgs == {"1M", "ALL"}
SamplingArgs == {"Auto", "Hourly", "Daily"}

\* the command line clap gives when only the listed arguments are passed
DefaultCli ==
    [symbols |-> <<>>, chart |-> FALSE, interval |-> "1M", sampling |-> "Auto",
     end_date |-> None, start_date |-> None, provider |-> "coingecko",
     currency |-> None, list_providers |-> FALSE, search |-> None]

\* <amount> <targets...>; --chart and an unknown --provider on a few of them
CalcInputs ==
    {[DefaultCli EXCEPT !.symbols = <<a>> \o ts, !.provider = "CoinGecko"] :
        a \in AmountTokens, ts \in SeqsUpTo(TargetTokens, MaxTargets)}
    \cup {[DefaultCli EXCEPT !.symbols = <<a>> \o ts, !.chart = ch, !.provider = p] :
            a \in AmountTokens, ts \in SeqsUpTo(TargetTokens, 1),
            ch \in BOOLEAN, p \in ProviderArgs}

\* <symbols...> without --chart
PriceInputs ==
    {[DefaultCli EXCEPT !.symbols = ss, !.provider = p] :
        ss \in SeqsUpTo(SymbolTokens, MaxSymbols), p \in ProviderArgs}

\* --chart <symbols...> on each provider and sampling; the date arguments on
\* one fiat and one crypto request; one request ending in chrono's first year
ChartInputs ==
    {[DefaultCli EXCEPT !.symbols = ss, !.chart = TRUE, !.provider = p, !.sampling = sa] :
        ss \in SeqsUpTo(SymbolTokens, MaxSymbols), p \in ChartProviderArgs,
        sa \in SamplingArgs}
    \cup {[DefaultCli EXCEPT !.symbols = ss, !.chart = TRUE, !.provider = p,
                             !.interval = iv, !.end_date = e, !.start_date = st] :
            ss \in {<<"btc">>, <<"usd", "EUR">>}, p \in {"yahoo", "nope"},
            iv \in IntervalArgs, e \in EndDateArgs, st \in StartDateArgs}
    \cup {[DefaultCli EXCEPT !.symbols = ss, !.chart = TRUE, !.provider = p,
                             !.end_date = e, !.start_date = st] :
            ss \in {<<"btc">>, <<"usd", "EUR">>}, p \in {"yahoo", "cmc"},
            e \in OldEndDateArgs, st \in OldStartDateArgs}
    \cup {[DefaultCli EXCEPT !.symbols = <<"btc">>, !.chart = TRUE, !.provider = "yahoo",
                             !.interval = "6M",
                             !.end_date = Some([y |-> -262143, m |-> 7, d |-> 1])]}

\* --list-providers, --search <query> and the positional search form
OtherInputs ==
    {[DefaultCli EXCEPT !.list_providers = TRUE, !.provider = p] : p \in ChartProviderArgs}
    \cup {[DefaultCli EXCEPT !.search = Some(q), !.provider = p] :
            q \in {"", " ", " apple "}, p \in ChartProviderArgs}
    \cup {[DefaultCli EXCEPT !.symbols = ss, !.provider = p] :
            ss \in {<<"Search">>, <<"search", "search", "apple">>, <<"search", "a", "b">>},
            p \in ChartProviderArgs}
    \cup {[DefaultCli EXCEPT !.search = q, !.list_providers = l, !.provider = "yahoo",
                             !.end_date = e, !.start_date = st] :
            q \in {None, Some("apple")}, l \in BOOLEAN, e \in EndDateArgs, st \in StartDateArgs}

CliInputs == CalcInputs \cup PriceInputs \cup ChartInputs \cup OtherInputs

\* the values the variables of the other specifications rest at
RunIdle ==
    /\ cli = None
    /\ pc = "idle"
    /\ result = None
    /\ out = NoOutput
    /\ requests = <<>>
    /\ fiat_result = None
    /\ crypto_result = None
    /\ conversions = <<>>
    /\ histories = <<>>
    /\ fetched = None
    /\ window_result = None
Unparsed == [done |-> FALSE, value |-> None]
Untested == [done |-> FALSE]
LexIdle == token = "" /\ parsed = Unparsed /\ known = Untested
FilterIdle == fh_in = <<>> /\ fh_bounds = None /\ fh_out = <<>> /\ fh_pass = 0
Unresolved == [phase |-> "given"]
DateIdle == rs_in = None /\ rs_out = Unresolved
NotCalled == [phase |-> "given"]
ProvIdle == gp_in = None /\ gp_out = NotCalled

\* ------------------------------------------------------------------ the invocation

Init ==
    /\ cli \in CliInputs
    /\ pc = "start"
    /\ result = None
    /\ out = NoOutput
    /\ requests = <<>>
    /\ fiat_result = None
    /\ crypto_result = None
    /\ conversions = <<>>
    /\ histories = <<>>
    /\ fetched = None
    /\ window_result = None
    /\ LexIdle
    /\ FilterIdle
    /\ DateIdle
    /\ ProvIdle

Next ==
    \/ ListProviders
    \/ SearchEmptyQuery
    \/ SearchUnknownProvider
    \/ SearchIssue
    \/ SearchReturn
    \/ NoSymbols
    \/ EndDateInFuture
    \/ StartDatePanics
    \/ StartAfterEnd
    \/ FiatChartNoTargets
    \/ FiatChartNonFiatTarget
    \/ FiatChartHourly
    \/ FiatChartIssue
    \/ FiatChartReturn
    \/ UnknownProvider
    \/ CalcWithChart
    \/ CalcNoTargets
    \/ CalcJoinIssue
    \/ FiatLegComplete
    \/ CryptoLegComplete
    \/ CalcJoinReturn
    \/ CalcFiatIssue
    \/ CalcFiatReturn
    \/ CalcCryptoIssue
    \/ CalcCryptoReturn
    \/ ChartWindowIssue
    \/ ChartWindowReturn
    \/ ChartHistoryReturn
    \/ PricesIssue
    \/ PricesReturn

Spec == Init /\ [][Next]_vars

\* ------------------------------------------------------------------ lexer specification

MaxNumLen == 3
NumChars == {"+", "-", "0", "5", "."}
CodeSamples == {"", "USD", "usd", "eUr", "btc", "inch", "US", "USDT"}

\* the spellings of a three-letter code in upper and lower case
CaseVariants(code) ==
    {join([i \in 1..3 |-> IF i \in low THEN to_lowercase_char(CharAt(code, i)) ELSE CharAt(code, i)], "") :
        low \in SUBSET (1..3)}
FiatSpellings == UNION {CaseVariants(code) : code \in KNOWN_FIAT}
TickerSamples == {"BTC", "ETH", "btc", "Eth", "USDT", "usdc", "US", "UDS", " usd", "usd ", "EURO"}

LexInit ==
    /\ token \in {join(p, "") \o c : p \in SeqsUpTo(NumChars, MaxNumLen), c \in CodeSamples}
                 \cup FiatSpellings \cup TickerSamples
    /\ parsed = Unparsed
    /\ known = Untested
    /\ RunIdle
    /\ FilterIdle
    /\ DateIdle
    /\ ProvIdle

LexParse ==
    /\ ~parsed.done
    /\ parsed' = [done |-> TRUE, value |-> parse_fiat_amount(token)]
    /\ UNCHANGED <<token, known, runVars, filterVars, dateVars, provVars>>

\* is_known_fiat on the token and on the currency parse_fiat_amount returned
LexKnown ==
    /\ parsed.done
    /\ ~known.done
    /\ known' = [done |-> TRUE,
                 token |-> is_known_fiat(token),
                 currency |-> IF parsed.value = None THEN None
                              ELSE Some(is_known_fiat(unwrap(parsed.value).currency))]
    /\ UNCHANGED <<token, parsed, runVars, filterVars, dateVars, provVars>>

LexNext ==
    \/ LexParse
    \/ LexKnown

LexSpec == LexInit /\ [][LexNext]_vars

\* ------------------------------------------------------------------ filter specification

MaxPoints == 2
TsSamples == {0, 1, 2}
FilterSymbols == <<"BTC", "ETH">>
SamplePrice == Rat(3, 2)

PointLists ==
    {[i \in DOMAIN ts |-> [timestamp |-> ts[i], price |-> SamplePrice]] :
        ts \in SeqsUpTo(TsSamples, MaxPoints)}

\* one series per symbol of a prefix of FilterSymbols
HistoryLists ==
    UNION {{[i \in 1..k |-> [symbol |-> FilterSymbols[i], points |-> pl[i]]] :
               pl \in [1..k -> PointLists]} : k \in 0..Len(FilterSymbols)}

FilterInit ==
    /\ fh_in \in HistoryLists
    /\ fh_bounds \in [start : {None} \cup {Some(t) : t \in TsSamples}, end : TsSamples]
    /\ fh_out = fh_in
    /\ fh_pass = 0
    /\ RunIdle
    /\ LexIdle
    /\ DateIdle
    /\ ProvIdle

\* one application of the filter to the current list, as at lines 397 and 581
FilterApply ==
    /\ fh_pass < 2
    /\ fh_out' = filter_histories_by_time_window(fh_out, fh_bounds.start, fh_bounds.end)
    /\ fh_pass' = fh_pass + 1
    /\ UNCHANGED <<fh_in, fh_bounds, runVars, lexVars, dateVars, provVars>>

FilterNext == FilterApply

FilterSpec == FilterInit /\ [][FilterNext]_vars

\* ------------------------------------------------------------------ date specification

Date(y, m, d) == [y |-> y, m |-> m, d |-> d]
Presets == {"1D", "5D", "1M", "6M", "YTD", "1Y", "5Y", "ALL"}

\* end dates: ordinary days, month ends, a leap day, and days of chrono's
\* first years, where a subtraction leaves the representable range
EndDateSamples ==
    {Date(2026, 2, 20), Date(2026, 3, 31), Date(2024, 2, 29), Date(2026, 1, 1),
     Date(2025, 8, 31), Date(-262143, 1, 31), Date(-262143, 7, 1), Date(-262143, 7, 2),
     Date(-262143, 12, 31), Date(-262142, 3, 1), Date(-262139, 6, 15), Date(-262138, 1, 1)}

\* --start-date: absent, before, on and after today, a century and more back
GivenStartSamples ==
    {None, Some(Date(2026, 2, 1)), Some(Date(2026, 2, 20)), Some(Date(2026, 3, 1)),
     Some(Date(1900, 1, 1)), Some(Date(1926, 3, 17))}

DateInit ==
    /\ rs_in \in [interval : Presets, end_date : EndDateSamples, start_date : GivenStartSamples]
    /\ rs_out = Unresolved
    /\ RunIdle
    /\ LexIdle
    /\ FilterIdle
    /\ ProvIdle

\* lines 337-339: the given start date, or else the preset's
ResolveStartDate ==
    /\ rs_out.phase = "given"
    /\ rs_out' =
         IF rs_in.start_date = None /\ start_date_panics(rs_in.interval, rs_in.end_date)
         THEN [phase |-> "panicked"]
         ELSE [phase |-> "resolved",
               start |-> or_else(rs_in.start_date, start_date(rs_in.interval, rs_in.end_date))]
    /\ UNCHANGED <<rs_in, runVars, lexVars, filterVars, provVars>>

\* line 357
ComputeFetchDays ==
    /\ rs_out.phase = "resolved"
    /\ rs_out' = [phase |-> "computed", start |-> rs_out.start,
                  days |-> compute_chart_fetch_days(rs_out.start)]
    /\ UNCHANGED <<rs_in, runVars, lexVars, filterVars, provVars>>

DateNext ==
    \/ ResolveStartDate
    \/ ComputeFetchDays

DateSpec == DateInit /\ [][DateNext]_vars

\* ------------------------------------------------------------------ get_prices of the two providers on one response

\* status lines a server may answer with, bodies apart
StatusSamples == {"200 OK", "204 No Content", "301 Moved Permanently",
                  "429 Too Many Requests", "500 Internal Server Error"}
ProviderSymbols == {"btc", "Bitcoin", "ETH"}
SourcedProviders == {"coingecko", "cmc"}

\* every response of the provider under every status line
ResponsesAnyStatus(p, symbols, cur) ==
    LET base == PriceResponses(p, symbols, cur)
    IN  base \cup {[r EXCEPT !.status = st] : r \in {b \in base : b.sent}, st \in StatusSamples}

ProvInit ==
    /\ \E p \in SourcedProviders, symbols \in SeqsUpTo(ProviderSymbols, MaxSymbols) :
         \E resp \in ResponsesAnyStatus(p, symbols, "usd") :
            gp_in = Some([provider |-> p, symbols |-> symbols, currency |-> "usd", resp |-> resp])
    /\ gp_out = NotCalled
    /\ RunIdle
    /\ LexIdle
    /\ FilterIdle
    /\ DateIdle

CoinGeckoGetPrices ==
    /\ gp_out.phase = "given"
    /\ unwrap(gp_in).provider = "coingecko"
    /\ gp_out' = [phase |-> "returned",
                  result |-> coingecko_get_prices(unwrap(gp_in).symbols, unwrap(gp_in).currency,
                                                  unwrap(gp_in).resp)]
    /\ UNCHANGED <<gp_in, runVars, lexVars, filterVars, dateVars>>

CmcGetPrices ==
    /\ gp_out.phase = "given"
    /\ unwrap(gp_in).provider = "cmc"
    /\ gp_out' = [phase |-> "returned",
                  result |-> cmc_get_prices(unwrap(gp_in).symbols, unwrap(gp_in).currency,
                                            unwrap(gp_in).resp)]
    /\ UNCHANGED <<gp_in, runVars, lexVars, filterVars, dateVars>>

ProvNext ==
    \/ CoinGeckoGetPrices
    \/ CmcGetPrices

ProviderSpec == ProvInit /\ [][ProvNext]_vars

\* ------------------------------------------------------------------ properties: lexer

LetterTailStart(t) ==
    CHOOSE p \in 1..(Len(t) + 1) :
        /\ \A i \in p..Len(t) : is_ascii_alphabetic(CharAt(t, i))
        /\ p > 1 => ~is_ascii_alphabetic(CharAt(t, p - 1))
ClassPrefix(t) == SubSeq(t, 1, LetterTailStart(t) - 1)
ClassSuffix(t) == SubSeq(t, LetterTailStart(t), Len(t))

\* the token has the form [+-]? [0-9.]+ [A-Za-z]+
InTokenClass(t) ==
    LET pre  == ClassPrefix(t)
        body == IF pre # "" /\ CharAt(pre, 1) \in {"+", "-"}
                THEN SubSeq(pre, 2, Len(pre)) ELSE pre
    IN  /\ ClassSuffix(t) # ""
        /\ body # ""
        /\ \A i \in 1..Len(body) : is_digit(CharAt(body, i)) \/ CharAt(body, i) = "."

SuffixIsFiat(t) == \E code \in KNOWN_FIAT : eq_ignore_ascii_case(ClassSuffix(t), code)

PrefixIsPositiveFinite(t) ==
    LET v == parse_f64(ClassPrefix(t))
    IN  v # None /\ ~unwrap(v).neg /\ unwrap(v).mag.n > 0 /\ unwrap(v).mag.d > 0

\* C4: on every token of the form sign? digits/dots letters, parse_fiat_amount
\* succeeds exactly when the letter suffix is a known fiat code up to case and
\* the numeric prefix parses to a positive finite value, and it then returns
\* that value with the uppercased code.
C4_ParseIffFiatAndPositive ==
    (parsed.done /\ InTokenClass(token)) =>
        /\ (parsed.value # None) <=> (SuffixIsFiat(token) /\ PrefixIsPositiveFinite(token))
        /\ (parsed.value # None) =>
              /\ unwrap(parsed.value).currency = to_uppercase(ClassSuffix(token))
              /\ unwrap(parsed.value).amount = unwrap(parse_f64(ClassPrefix(token))).mag

\* a lowercase token of the class was parsed into an amount
C4_Witness ==
    /\ parsed.done
    /\ parsed.value # None
    /\ InTokenClass(token)
    /\ ClassSuffix(token) = "usd"
    /\ unwrap(parsed.value).currency = "USD"

\* ------------------------------------------------------------------ properties: windowing

PointsOf(hs) == UNION {{<<hs[i].symbol, hs[i].points[j]>> : j \in DOMAIN hs[i].points} : i \in DOMAIN hs}

InBounds(p, b) == p.timestamp <= b.end /\ (b.start # None => p.timestamp >= unwrap(b.start))

\* C8: a second application of the window filter with the same bounds removes
\* no point and no series.
C8_FilterIdempotent ==
    [][(fh_pass = 1 /\ fh_pass' = 2) => fh_out' = fh_out]_vars

\* the second pass ran on a list the first pass had shortened
C8_Witness == fh_pass = 2 /\ fh_out # fh_in /\ fh_out # <<>>

\* ---- calc mode, both legs

JoinBranch == Len(requests) = 2 /\ requests[1].op = "get_rates"
BothLegsDone == fiat_result # None /\ crypto_result # None
ALegFailed ==
    /\ BothLegsDone
    /\ ~unwrap(fiat_result).ok \/ ~unwrap(crypto_result).ok

\* C1: in calc mode with fiat and crypto targets, the FX request and the
\* price request are both out before run() waits on either; while either leg
\* is incomplete no conversion record exists and nothing is printed, in either
\* completion order; and when a leg has failed the call ends with that leg's
\* error, with nothing printed.
C1_ConcurrentAllOrNothing ==
    /\ pc = "join" =>
         /\ Len(requests) = 2
         /\ requests[1].op = "get_rates" /\ requests[2].op = "get_prices"
         /\ conversions = <<>> /\ out = NoOutput /\ result = None
    /\ (JoinBranch /\ ~BothLegsDone) => (pc = "join" /\ conversions = <<>>)
    /\ (JoinBranch /\ pc = "done" /\ ALegFailed) =>
         /\ ~result.ok
         /\ result \in {unwrap(fiat_result), unwrap(crypto_result)}
         /\ out = NoOutput
C1_Witness ==
    /\ JoinBranch /\ pc = "done"
    /\ unwrap(fiat_result).ok /\ ~unwrap(crypto_result).ok
    /\ result = unwrap(crypto_result)

RECURSIVE IsSubseq(_, _)
IsSubseq(a, b) ==
    IF a = <<>> THEN TRUE
    ELSE IF b = <<>> THEN FALSE
    ELSE IF a[1] = b[1] THEN IsSubseq(Tail(a), Tail(b))
    ELSE IsSubseq(a, Tail(b))

ToSymbols(cs) == [i \in DOMAIN cs |-> cs[i].to_symbol]
UpperFiatTargets ==
    LET is_fiat(t) == to_uppercase(t) \in KNOWN_FIAT
    IN  upper_all(SelectSeq(targets, is_fiat))
UpperCryptoTargets ==
    LET unknown(t) == to_uppercase(t) \notin KNOWN_FIAT
    IN  upper_all(SelectSeq(targets, unknown))
JoinPrinted == JoinBranch /\ pc = "done" /\ out.kind = "conversions"

\* C2: when the concurrent branch prints, the conversion list is the fiat
\* targets that got a rate, in their input order, followed by the crypto
\* targets that got a price, in their input order; the state holds this
\* whichever leg completed first.
C2_FiatThenCryptoInInputOrder ==
    JoinPrinted =>
        LET rates == unwrap(fiat_result).value
            rated(u) == u \in DOMAIN rates
            fiat_part == SelectSeq(UpperFiatTargets, rated)
            k == Len(fiat_part)
            syms == ToSymbols(out.data)
        IN  /\ Len(syms) >= k
            /\ SubSeq(syms, 1, k) = fiat_part
            /\ IsSubseq(SubSeq(syms, k + 1, Len(syms)), UpperCryptoTargets)
            /\ Len(syms) - k = Len(unwrap(crypto_result).value)
C2_Witness ==
    /\ JoinPrinted
    /\ targets = <<"btc", "EUR", "gbp">>
    /\ ToSymbols(out.data) = <<"EUR", "GBP", "BTC">>

\* ---- conversions

ConversionsPrinted == pc = "done" /\ out.kind = "conversions"

\* C5 (as the specification states it): a conversion call that ends without
\* an error has printed at least one conversion.
C5_SuccessNeverEmpty == ConversionsPrinted => out.data # <<>>

FiatFormula(c) ==
    LET r == unwrap(fiat_result).value[c.to_symbol]
    IN  /\ c.to_amount = FMul(c.from_amount, r)
        /\ FMul(c.rate, r) = FOne
        /\ c.provider = "Frankfurter/ECB"
CryptoFormula(c) ==
    \E i \in DOMAIN unwrap(crypto_result).value :
        LET p == unwrap(crypto_result).value[i]
        IN  /\ p.symbol = c.to_symbol
            /\ c.rate = p.price
            /\ c.provider = p.provider
            /\ IF p.price = FZero THEN ~is_finite(c.to_amount)
               ELSE FMul(c.to_amount, p.price) = c.from_amount

\* C9: every printed conversion converts the parsed amount; one to a fiat
\* target has toAmount = fromAmount * r, rate = 1/r and the provider label
\* "Frankfurter/ECB", one to a crypto target has toAmount = fromAmount /
\* price, rate = price and the provider of the price; in the concurrent
\* branch and in both single-leg branches.
C9_ConversionFormulas ==
    ConversionsPrinted =>
        \A i \in DOMAIN out.data :
            LET c == out.data[i]
            IN  /\ c.from_amount = fiat.amount
                /\ c.from_currency = fiat.currency
                /\ IF c.to_symbol \in KNOWN_FIAT THEN FiatFormula(c) ELSE CryptoFormula(c)
C9_Witness ==
    /\ JoinPrinted
    /\ \E i, j \in DOMAIN out.data :
         /\ out.data[i].to_symbol = "EUR" /\ out.data[i].rate = Rat(20, 17)
         /\ out.data[j].to_symbol = "BTC" /\ out.data[j].rate = Rat(50000, 1)
         /\ out.data[j].to_amount = Rat(1, 20000)

\* ---- partition

AllKnownFiat(s) == \A i \in DOMAIN s : to_uppercase(s[i]) \in KNOWN_FIAT
NoneKnownFiat(s) == \A i \in DOMAIN s : to_uppercase(s[i]) \notin KNOWN_FIAT
CalcRequested == pc # "start" /\ requests # <<>> /\ InCalcFetch

\* C10: in calc mode the two partitions are order-preserving selections of
\* the targets, fiat_targets holds known fiat codes only, crypto_targets none,
\* together they hold every target once; a get_rates request goes to the FX
\* source with the fiat targets, a get_prices request to the chosen provider
\* with the crypto targets, and nothing else is requested.
C10_PartitionAndRouting ==
    CalcRequested =>
        /\ IsSubseq(fiat_targets, targets)
        /\ IsSubseq(crypto_targets, targets)
        /\ Len(fiat_targets) + Len(crypto_targets) = Len(targets)
        /\ AllKnownFiat(fiat_targets)
        /\ NoneKnownFiat(crypto_targets)
        /\ \A i \in DOMAIN requests :
             IF requests[i].svc = "Frankfurter"
             THEN /\ requests[i].op = "get_rates"
                  /\ requests[i].args[2] = fiat_targets
                  /\ AllKnownFiat(requests[i].args[2])
             ELSE /\ requests[i].op = "get_prices"
                  /\ requests[i].svc = prov
                  /\ requests[i].args[1] = crypto_targets
                  /\ NoneKnownFiat(requests[i].args[1])
C10_Witness ==
    /\ CalcRequested
    /\ targets = <<"btc", "EUR", "ETH">>
    /\ requests = <<[svc |-> "Frankfurter", op |-> "get_rates", args |-> <<"USD", <<"EUR">>>>],
                    [svc |-> "coingecko", op |-> "get_prices", args |-> <<<<"btc", "ETH">>, "USD">>]>>

\* ---- chart mode

HistoryRequested == \E i \in DOMAIN requests : requests[i].op = "get_price_history"
WindowDeclined(r) ==
    /\ ~r.ok
    /\ r.kind = "Config"
    /\ contains(r.msg, "does not support explicit chart date windows")

\* C3: the day-count fetch is requested exactly when the window fetch has
\* returned a Config error whose message contains "does not support explicit
\* chart date windows"; any other error of the window fetch is what run()
\* returns, with no day-count request and nothing printed.
C3_FallbackOnlyOnWindowDecline ==
    /\ window_result = None => ~HistoryRequested
    /\ window_result # None =>
         LET r == unwrap(window_result)
         IN  /\ HistoryRequested <=> WindowDeclined(r)
             /\ (~r.ok /\ ~WindowDeclined(r)) =>
                  (pc = "done" /\ result = r /\ out = NoOutput)
C3_Witness ==
    /\ window_result # None
    /\ WindowDeclined(unwrap(window_result))
    /\ HistoryRequested
    /\ pc = "done" /\ out.kind = "history"

\* C6 (as the specification states it): an invocation whose --provider names
\* no registered provider prints no prices, chart or conversions.
C6_UnknownProviderNoOutput ==
    (pc = "done" /\ get_provider(ProviderIds, cli.provider) = None) =>
        out.kind \notin {"prices", "history", "conversions"}

\* C7: what chart mode prints is the fetched list after the window filter:
\* every printed point has timestamp <= end and, with a start bound,
\* timestamp >= start; every fetched point within the bounds is printed under
\* its symbol; no printed series is empty; on the window path and on the
\* day-count path alike, nothing is printed unfiltered.
C7_WindowPostconditions ==
    LET b == [start |-> chart_start_ts, end |-> chart_end_ts]
    IN  /\ fetched # None =>
              /\ \A sp \in PointsOf(histories) : InBounds(sp[2], b)
              /\ \A sp \in PointsOf(unwrap(fetched)) :
                     InBounds(sp[2], b) => sp \in PointsOf(histories)
              /\ \A i \in DOMAIN histories : histories[i].points # <<>>
        /\ out.kind = "history" => (fetched # None /\ out.data = histories)
C7_Witness ==
    /\ HistoryRequested
    /\ out.kind = "history"
    /\ Len(unwrap(fetched)) = 2
    /\ Len(out.data) = 1
    /\ Len(out.data[1].points) = 2
    /\ Len(unwrap(fetched)[1].points) = 4

\* ---- calc mode, one leg

CalcFetching == pc # "start" /\ InCalcFetch

\* C11: with fiat targets only, the one request of the invocation is the
\* get_rates request to the FX source and no price result ever exists; with
\* non-fiat targets only, the one request is the get_prices request to the
\* chosen provider and no rate result ever exists.
C11_SingleLegFrame ==
    CalcFetching =>
        /\ AllKnownFiat(targets) =>
             /\ Len(requests) = 1
             /\ requests[1].svc = "Frankfurter" /\ requests[1].op = "get_rates"
             /\ crypto_result = None
        /\ NoneKnownFiat(targets) =>
             /\ Len(requests) = 1
             /\ requests[1].svc = prov /\ requests[1].op = "get_prices"
             /\ fiat_result = None
C11_Witness ==
    /\ CalcFetching
    /\ pc = "done"
    /\ targets = <<"EUR", "gbp">>
    /\ out.kind = "conversions"
    /\ Len(requests) = 1

FiatRecords(cs) ==
    LET to_fiat(c) == c.to_symbol \in KNOWN_FIAT IN SelectSeq(cs, to_fiat)

\* C12: when conversions are printed, a fiat target whose uppercased code is
\* not a key of the returned rate map has no record and the call has
\* succeeded; the fiat records are those of the remaining fiat targets, in
\* input order, each computed from its own rate.
C12_AbsentFiatTargetDropped ==
    (ConversionsPrinted /\ fiat_result # None) =>
        LET rates == unwrap(fiat_result).value
            rated(u) == u \in DOMAIN rates
            recs == FiatRecords(out.data)
        IN  /\ result.ok
            /\ ToSymbols(recs) = SelectSeq(UpperFiatTargets, rated)
            /\ \A i \in DOMAIN recs :
                 /\ recs[i].to_symbol \in DOMAIN rates
                 /\ FiatFormula(recs[i])
C12_Witness ==
    /\ ConversionsPrinted
    /\ targets = <<"EUR", "gbp">>
    /\ DOMAIN unwrap(fiat_result).value = {"GBP"}
    /\ ToSymbols(out.data) = <<"GBP">>

\* ---- chart range

MonthIndex(date) == date.y * 12 + (date.m - 1)
CalendarDefined(end_date, n) == MonthIndex(end_date) - n >= MonthIndex(MIN_DATE)
Smaller(a, b) == IF a < b THEN a ELSE b

\* start is end_date moved n calendar months back, the day of the month kept
\* or clamped to the month's length
MonthsBefore(start, end_date, n) ==
    /\ start # None
    /\ MonthIndex(unwrap(start)) = MonthIndex(end_date) - n
    /\ unwrap(start).d = Smaller(end_date.d, days_in_month(unwrap(start).y, unwrap(start).m))
DaysBefore(start, end_date, k) ==
    /\ start # None
    /\ days_from_civil(unwrap(start)) = days_from_civil(end_date) - k
MonthsOrDaysBefore(start, end_date, n, k) ==
    IF CalendarDefined(end_date, n) THEN MonthsBefore(start, end_date, n)
    ELSE DaysBefore(start, end_date, k)

PresetResolved == rs_in # None /\ rs_in.start_date = None /\ rs_out.phase # "given"

\* C13 (as the specification states it): for every end date the resolver
\* returns January 1st of the end date's year for YTD, none for ALL, and for
\* 1M, 6M, 1Y and 5Y the end date minus 1, 6, 12 and 60 calendar months, or
\* minus 30, 182, 365 and 1825 days where the calendar subtraction is undefined.
C13_PresetsResolve ==
    PresetResolved =>
        /\ rs_out.phase # "panicked"
        /\ CASE rs_in.interval = "YTD" -> rs_out.start = Some(Date(rs_in.end_date.y, 1, 1))
             [] rs_in.interval = "ALL" -> rs_out.start = None
             [] rs_in.interval = "1M"  -> MonthsOrDaysBefore(rs_out.start, rs_in.end_date, 1, 30)
             [] rs_in.interval = "6M"  -> MonthsOrDaysBefore(rs_out.start, rs_in.end_date, 6, 182)
             [] rs_in.interval = "1Y"  -> MonthsOrDaysBefore(rs_out.start, rs_in.end_date, 12, 365)
             [] rs_in.interval = "5Y"  -> MonthsOrDaysBefore(rs_out.start, rs_in.end_date, 60, 1825)
             [] OTHER -> TRUE

DaysSince(start) == days_from_civil(Today) - days_from_civil(unwrap(start))

\* C14: the fetch day-count is 36500 without a start date; with one it is
\* the number of days from the start date to today, raised to 1 when that is
\* smaller (a start date today or later) and lowered to 36500 when that is
\* larger; so it always lies in 1..36500.
C14_FetchDaysClamped ==
    (rs_in # None /\ rs_out.phase = "computed") =>
        /\ rs_out.days \in 1..36500
        /\ rs_out.start = None => rs_out.days = 36500
        /\ rs_out.start # None =>
             LET span == DaysSince(rs_out.start)
             IN  /\ span <= 1 => rs_out.days = 1
                 /\ (1 <= span /\ span <= 36500) => rs_out.days = span
                 /\ span >= 36500 => rs_out.days = 36500
C14_Witness ==
    /\ rs_in # None /\ rs_out.phase = "computed"
    /\ rs_out.start = Some(Date(2026, 3, 1))
    /\ rs_out.days = 1

\* ---- fiat chart mode

FiatChartRequest == InFiatChart /\ targets # <<>> /\ AllKnownFiat(targets)

\* C15: in fiat chart mode an invocation with hourly sampling never issues a
\* request and ends with a Config error, which for fiat targets is the one
\* about daily history; with auto or daily sampling and fiat targets the FX
\* history request is the first and only request once run() has moved on.
C15_FiatChartRejectsHourly ==
    /\ (InFiatChart /\ cli.sampling = "Hourly") =>
         /\ requests = <<>>
         /\ pc \in {"start", "done"}
         /\ pc = "done" => (~result.ok /\ result.kind = "Config")
    /\ (FiatChartRequest /\ cli.sampling = "Hourly" /\ pc = "done") =>
         contains(result.msg, "daily history only")
    /\ (FiatChartRequest /\ cli.sampling \in {"Auto", "Daily"} /\ pc # "start") =>
         /\ Len(requests) = 1
         /\ requests[1].svc = "Frankfurter" /\ requests[1].op = "get_history"
C15_Witness ==
    /\ FiatChartRequest
    /\ cli.sampling = "Hourly"
    /\ pc = "done"
    /\ result.kind = "Config"
    /\ requests = <<>>

\* ---- get_prices of CoinGecko and CoinMarketCap

Called == gp_out.phase = "returned"
Provider == unwrap(gp_in).provider
Symbols == unwrap(gp_in).symbols
Response == unwrap(gp_in).resp
Convert == to_uppercase(unwrap(gp_in).currency)

\* the entry of the response that answers the input symbol sym, if any
CmcEntry(sym) == map_get(unwrap(Response.data).data, to_uppercase(sym))
CoinGeckoEntry(sym) == map_get(unwrap(Response.data), resolve(sym)[1])

\* an entry of "data" asked for that is no coin, or an array holding one
MalformedEntry(sym) ==
    /\ CmcEntry(sym) # None
    /\ \E k \in DOMAIN unwrap(CmcEntry(sym)).coins : ~unwrap(CmcEntry(sym)).coins[k].valid

\* the response went through: success status, a body of the expected shape
\* and, for CoinMarketCap, no error message and no malformed entry asked for
Accepted ==
    /\ Response.sent
    /\ is_success(Response.status)
    /\ Response.data # None
    /\ Provider = "cmc" =>
         /\ unwrap(Response.data).error_message \in {None, Some("")}
         /\ \A i \in DOMAIN Symbols : ~MalformedEntry(Symbols[i])

\* the response resolves the input symbol: it holds the coin, for
\* CoinMarketCap with a quote in the requested currency
Resolves(sym) ==
    IF Provider = "coingecko" THEN CoinGeckoEntry(sym) # None
    ELSE /\ CmcEntry(sym) # None
         /\ unwrap(CmcEntry(sym)).coins # <<>>
         /\ Convert \in DOMAIN unwrap(CmcEntry(sym)).coins[1].quote

\* the positions of the resolved input symbols, ascending
ResolvedPositions ==
    SelectSeq([i \in DOMAIN Symbols |-> i], LAMBDA i : Resolves(Symbols[i]))

\* the record is the CoinPrice of the input symbol sym
PriceOfSymbol(rec, sym) ==
    IF Provider = "coingecko"
    THEN /\ rec.symbol = to_uppercase(sym)
         /\ rec.name = resolve(sym)[2]
         /\ rec.price = (IF "usd" \in DOMAIN unwrap(CoinGeckoEntry(sym))
                         THEN unwrap(CoinGeckoEntry(sym))["usd"] ELSE FZero)
         /\ rec.currency = Convert /\ rec.provider = "CoinGecko"
    ELSE LET c == unwrap(CmcEntry(sym)).coins[1]
         IN  /\ rec.symbol = c.symbol /\ rec.name = c.name
             /\ rec.price = (IF c.quote[Convert].price = None THEN FZero
                             ELSE unwrap(c.quote[Convert].price))
             /\ rec.currency = Convert /\ rec.provider = "CoinMarketCap"

\* C16: on a response that went through, get_prices returns exactly one
\* CoinPrice per input symbol the response resolves, at the rank the symbol
\* has among the resolved input symbols; the other input symbols leave no
\* record and raise no error; and the result is NoResults exactly when the
\* response went through and resolved no input symbol.
C16_OnePricePerResolvedSymbol ==
    Called =>
      /\ (Accepted /\ ResolvedPositions # <<>>) =>
           /\ gp_out.result.ok
           /\ Len(gp_out.result.value) = Len(ResolvedPositions)
           /\ \A k \in DOMAIN ResolvedPositions :
                PriceOfSymbol(gp_out.result.value[k], Symbols[ResolvedPositions[k]])
      /\ (Accepted /\ ResolvedPositions = <<>>) => gp_out.result = Err("NoResults", "")
      /\ (~gp_out.result.ok /\ gp_out.result.kind = "NoResults") =>
           (Accepted /\ ResolvedPositions = <<>>)
      /\ gp_out.result.ok => Accepted
C16_Witness ==
    /\ Called
    /\ Provider = "cmc"
    /\ Symbols = <<"btc", "ETH">>
    /\ gp_out.result.ok
    /\ ~Resolves("btc")
    /\ Len(gp_out.result.value) = 1
    /\ gp_out.result.value[1].symbol = "ETH"

\* how the Parse messages of the provider name it
ParseTag == IF Provider = "coingecko" THEN "CoinGecko" ELSE "CMC"

\* C17: for CoinGecko and CoinMarketCap, a response received with a
\* non-success status yields an Api error whose message holds the status,
\* whatever the body decodes to; a response with a success status whose body
\* does not decode yields a Parse error whose message names the provider, and
\* so does a CoinMarketCap body without error message whose entry for an
\* input symbol is malformed.
C17_StatusThenBody ==
    (Called /\ Response.sent) =>
      /\ ~is_success(Response.status) =>
           /\ ~gp_out.result.ok
           /\ gp_out.result.kind = "Api"
           /\ contains(gp_out.result.msg, Response.status)
      /\ (is_success(Response.status) /\ Response.data = None) =>
           /\ ~gp_out.result.ok
           /\ gp_out.result.kind = "Parse"
           /\ contains(gp_out.result.msg, ParseTag)
      /\ (/\ Provider = "cmc"
          /\ is_success(Response.status)
          /\ Response.data # None
          /\ unwrap(Response.data).error_message \in {None, Some("")}
          /\ \E i \in DOMAIN Symbols : MalformedEntry(Symbols[i])) =>
           /\ ~gp_out.result.ok
           /\ gp_out.result.kind = "Parse"
           /\ contains(gp_out.result.msg, ParseTag)
C17_Witness ==
    /\ Called
    /\ Provider = "coingecko"
    /\ Response.sent
    /\ Response.status = "429 Too Many Requests"
    /\ Response.data # None
    /\ Symbols # <<>>
    /\ \A i \in DOMAIN Symbols : Resolves(Symbols[i])
    /\ gp_out.result.kind = "Api"

\* ---- is_known_fiat

\* s spells the code letter by letter, each letter in either case
SpellsCode(s, code) ==
    /\ Len(s) = Len(code)
    /\ \A i \in 1..Len(code) :
         CharAt(s, i) \in {CharAt(code, i), to_lowercase_char(CharAt(code, i))}

\* C18: is_known_fiat accepts a string exactly when it spells, in any mix of
\* upper and lower case, a code of the fixed fiat set; so every case variant
\* of every code is accepted and BTC, ETH and the empty string are rejected;
\* and the currency parse_fiat_amount returns is accepted.
C18_KnownFiatIgnoresCase ==
    known.done =>
      /\ known.token <=> (\E code \in KNOWN_FIAT : SpellsCode(token, code))
      /\ token \in FiatSpellings => known.token
      /\ token \in {"BTC", "ETH", ""} => ~known.token
      /\ parsed.value # None => known.currency = Some(TRUE)
C18_Witness ==
    /\ known.done
    /\ token = "eGp"
    /\ known.token

\* ---- requests of one invocation

SameOpTwice(reqs) == \E i, j \in DOMAIN reqs : i < j /\ reqs[i].op = reqs[j].op
Failed(o) == o # None /\ ~unwrap(o).ok
FailureSeen ==
    \/ Failed(fiat_result)
    \/ Failed(crypto_result)
    \/ Failed(window_result)
    \/ pc = "done" /\ ~result.ok

\* C19: in every step of run() no remote operation is among the requests
\* twice; a step that issues a request keeps the earlier requests, is taken
\* while no failure has been seen, and if it sees one itself it is the window
\* fetch declining, answered by the one day-count request to the same
\* provider; and when that day-count fetch fails run() ends with an error,
\* prints nothing and issues nothing more.
C19_NoRequestRetried ==
    [][/\ ~SameOpTwice(requests')
       /\ requests' # requests =>
            /\ Len(requests') > Len(requests)
            /\ SubSeq(requests', 1, Len(requests)) = requests
            /\ ~FailureSeen
            /\ FailureSeen' =>
                 /\ Len(requests) = 1
                 /\ requests[1].op = "get_price_history_window"
                 /\ Len(requests') = 2
                 /\ requests'[2].op = "get_price_history"
                 /\ requests'[2].svc = requests[1].svc
                 /\ WindowDeclined(unwrap(window_result'))
       /\ (pc = "history" /\ pc' = "done" /\ fetched' = None) =>
            /\ ~result'.ok
            /\ out' = NoOutput
            /\ requests' = requests]_vars
C19_Witness ==
    /\ pc = "done"
    /\ Len(requests) = 2
    /\ requests[2].op = "get_price_history"
    /\ prov = "yahoo"
    /\ fetched = None
    /\ result.kind = "Api"

\* ---- chart mode of a provider without history

\* run() has asked a provider that overrides neither history method for a chart
ChartOfPriceOnlyProvider ==
    /\ pc \notin {"idle", "start"}
    /\ requests # <<>>
    /\ requests[1].op = "get_price_history_window"
    /\ prov \in OnlyPrices

\* C20: chart mode on a provider that overrides neither history method asks
\* it for the window once, then for the day count once, and ends with the
\* Config error "provider '<id>' does not support chart mode", with nothing
\* printed and no series kept.
C20_NoHistoryProviderFails ==
    ChartOfPriceOnlyProvider =>
      /\ pc \in {"window", "history", "done"}
      /\ requests[1].svc = prov
      /\ pc = "window" => Len(requests) = 1
      /\ pc # "window" =>
           /\ Len(requests) = 2
           /\ requests[2].svc = prov /\ requests[2].op = "get_price_history"
      /\ pc = "done" =>
           /\ result = Err("Config", "provider '" \o prov \o "' does not support chart mode")
           /\ out = NoOutput
           /\ histories = <<>>
C20_Witness ==
    /\ ChartOfPriceOnlyProvider
    /\ pc = "done"
    /\ prov = "cmc"
    /\ Len(requests) = 2
    /\ result.kind = "Config"

\* ---- fiat chart mode: the fetch and the window

FiatChartFetched == FiatChartRequest /\ pc \notin {"idle", "start"} /\ requests # <<>>

\* C21: in fiat chart mode the one request of the invocation is the FX
\* source's day-count history of the base against the targets over the
\* computed fetch day-count; no provider of the registry is asked and no
\* window fetch is made; and what is kept and printed of a successful fetch
\* is its points within [start 00:00:00, end 23:59:59], series left without
\* points dropped.
C21_FiatChartByDayCount ==
    FiatChartFetched =>
      /\ requests = <<[svc |-> "Frankfurter", op |-> "get_history",
                       args |-> <<to_uppercase(cli.symbols[1]), upper_all(Tail(cli.symbols)),
                                  compute_chart_fetch_days(chart_start_date)>>]>>
      /\ requests[1].svc \notin {ProviderIds[i] : i \in DOMAIN ProviderIds}
      /\ window_result = None
      /\ (pc = "done" /\ fetched # None) =>
           LET b == [start |-> chart_start_ts, end |-> chart_end_ts]
           IN  /\ \A sp \in PointsOf(histories) : InBounds(sp[2], b)
               /\ \A sp \in PointsOf(unwrap(fetched)) :
                      InBounds(sp[2], b) => sp \in PointsOf(histories)
               /\ \A i \in DOMAIN histories : histories[i].points # <<>>
               /\ histories = filter_histories_by_time_window(unwrap(fetched), chart_start_ts, chart_end_ts)
               /\ out.kind = "history" => out.data = histories
C21_Witness ==
    /\ FiatChartFetched
    /\ pc = "done"
    /\ out.kind = "history"
    /\ fetched # None
    /\ PointsOf(out.data) # PointsOf(unwrap(fetched))

\* ---- calc mode, both legs: which error is returned

JoinReturned == JoinBranch /\ pc = "done" /\ BothLegsDone

\* C22: when the concurrent branch has returned and both legs failed, run()
\* returns the FX leg's error, whichever leg completed first; when only the
\* price leg failed, run() returns the price leg's error, the conversion
\* records built from the rates are all that was built, and none is printed.
C22_FiatErrorFirst ==
    JoinReturned =>
      /\ (~unwrap(fiat_result).ok /\ ~unwrap(crypto_result).ok) =>
           /\ result = unwrap(fiat_result)
           /\ conversions = <<>>
           /\ out = NoOutput
      /\ (unwrap(fiat_result).ok /\ ~unwrap(crypto_result).ok) =>
           /\ result = unwrap(crypto_result)
           /\ conversions = join_fiat_conversions(fiat, fiat_targets, unwrap(fiat_result).value)
           /\ out = NoOutput
C22_Witness ==
    /\ JoinReturned
    /\ unwrap(fiat_result).ok
    /\ ~unwrap(crypto_result).ok
    /\ conversions # <<>>
    /\ result = unwrap(crypto_result)
    /\ out = NoOutput

\* ---- chart modes: an empty window

\* a fetch succeeded and none of its points lies within the window
AllPointsOutside ==
    /\ fetched # None
    /\ \A sp \in PointsOf(unwrap(fetched)) :
         ~InBounds(sp[2], [start |-> chart_start_ts, end |-> chart_end_ts])

\* C23: in the provider chart path and in the fiat chart path, when a fetch
\* has succeeded and none of its points lies within [start, end], run() ends
\* with NoResults and prints nothing; and a printed chart list has at least
\* one series and no series without points.
C23_EmptyWindowIsNoResults ==
    /\ (pc = "done" /\ AllPointsOutside) =>
         /\ result = Err("NoResults", "")
         /\ out = NoOutput
    /\ out.kind = "history" =>
         /\ out.data # <<>>
         /\ \A i \in DOMAIN out.data : out.data[i].points # <<>>
C23_Witness ==
    /\ pc = "done"
    /\ FiatChartFetched
    /\ AllPointsOutside
    /\ PointsOf(unwrap(fetched)) # {}
    /\ result.kind = "NoResults"

\* ---- the dates and the requests

EndInFuture == days_from_civil(chart_end_date) > days_from_civil(Today)
StartAfterEndDate ==
    /\ ~(cli.start_date = None /\ start_date_panics(cli.interval, chart_end_date))
    /\ chart_start_date # None
    /\ days_from_civil(unwrap(chart_start_date)) > days_from_civil(chart_end_date)
BadDates == EndInFuture \/ StartAfterEndDate
HistoryOps == {"get_history", "get_price_history_window", "get_price_history"}

\* C24 (as the specification states it): an end date later than today, or a
\* resolved start date later than the end date, ends the invocation with a
\* Config error before any provider or FX request is issued.
C24_DatesBeforeEveryRequest ==
    (pc # "idle" /\ BadDates) =>
      /\ requests = <<>>
      /\ pc = "done" => (result # None /\ ~result.ok /\ result.kind = "Config")

\* C24 (amended): in an invocation that neither lists the providers nor
\* searches tickers, an end date later than today, or a resolved start date
\* later than the end date, ends run() with a Config error and no request
\* issued; so every history request is issued, and every fetched history is
\* windowed, with start <= end <= today.
C24_DatesBeforeFetch ==
    /\ (pc # "idle" /\ PastSearch /\ BadDates) =>
         /\ requests = <<>>
         /\ pc \in {"start", "done"}
         /\ pc = "done" => (~result.ok /\ result.kind = "Config")
    /\ (pc # "idle" /\ PastSearch /\ cli.symbols # <<>> /\ EndInFuture /\ pc = "done") =>
         result = Err("Config", "chart end date cannot be in the future")
    /\ (pc # "idle" /\ PastSearch /\ cli.symbols # <<>> /\ ~EndInFuture /\ StartAfterEndDate
          /\ pc = "done") =>
         result = Err("Config", "chart start date cannot be after chart end date")
    /\ \A i \in DOMAIN requests : requests[i].op \in HistoryOps => ~BadDates
    /\ fetched # None => ~BadDates
C24_Witness ==
    /\ pc = "done"
    /\ PastSearch
    /\ cli.chart
    /\ ~EndInFuture
    /\ StartAfterEndDate
    /\ requests = <<>>
    /\ result.kind = "Config"

\* ---- the fetch day-count and the window

DayCountOps == {"get_history", "get_price_history"}
\* days from the start date to today, and to the end date
StartAge == days_from_civil(Today) - days_from_civil(unwrap(chart_start_date))
WindowDays == days_from_civil(chart_end_date) - days_from_civil(unwrap(chart_start_date))
\* the day-count argument of request i
FetchDays(i) == requests[i].args[3]

\* C25 (as the specification states it): a day-count request made with a
\* start date at most 36500 days before today asks for at least the days from
\* the start date to the end date, and one made with an older start date asks
\* for fewer days than the window from the start date to the end date has.
C25_FetchCoversOrShorterThanWindow ==
    \A i \in DOMAIN requests :
      (requests[i].op \in DayCountOps /\ chart_start_date # None) =>
        /\ StartAge <= MAX_CHART_FETCH_DAYS => FetchDays(i) >= WindowDays
        /\ StartAge > MAX_CHART_FETCH_DAYS => FetchDays(i) < WindowDays

\* C25 (amended): a day-count request made with a start date at most 36500
\* days before today asks for at least the days from the start date to today,
\* hence at least the days from the start date to the end date; one made with
\* an older start date asks for 36500 days, fewer than the days from the start
\* date to today.
C25_FetchReachesStartUnlessCapped ==
    \A i \in DOMAIN requests :
      (requests[i].op \in DayCountOps /\ chart_start_date # None) =>
        /\ StartAge <= MAX_CHART_FETCH_DAYS =>
             /\ FetchDays(i) >= StartAge
             /\ FetchDays(i) >= WindowDays
        /\ StartAge > MAX_CHART_FETCH_DAYS =>
             /\ FetchDays(i) = MAX_CHART_FETCH_DAYS
             /\ FetchDays(i) < StartAge
C25_Witness ==
    /\ Len(requests) = 2
    /\ requests[2].op = "get_price_history"
    /\ chart_start_date # None
    /\ StartAge > MAX_CHART_FETCH_DAYS
    /\ WindowDays < MAX_CHART_FETCH_DAYS
    /\ FetchDays(2) = MAX_CHART_FETCH_DAYS

\* ---- chart mode and the first token

\* --chart with a first token <number><fiat code>, past the listing, the
\* search and the resolution of the dates
ChartOnAmount ==
    /\ pc # "idle"
    /\ PastSymbols
    /\ StartResolved
    /\ cli.chart
    /\ parse_fiat_amount(cli.symbols[1]) # None

\* C26: --chart with a first token <number><fiat code> issues no request and
\* ends with a Config error, the one about direct symbol lookup when the
\* dates and the provider are valid; --chart with a bare fiat code as first
\* token is fiat chart mode whatever the provider, and with no target or with
\* a target that is no fiat code it issues no request and ends with the
\* Config error of that case.
C26_ChartNeedsPlainSymbols ==
    /\ ChartOnAmount =>
         /\ requests = <<>>
         /\ pc \in {"start", "done"}
         /\ pc = "done" => (~result.ok /\ result.kind = "Config" /\ out = NoOutput)
         /\ ~is_known_fiat(cli.symbols[1])
    /\ (ChartOnAmount /\ InCalc /\ pc = "done") =>
         result = Err("Config", "chart mode is only available for direct symbol lookup")
    /\ (pc # "idle" /\ InFiatChart /\ ~FiatChartRequest) =>
         /\ requests = <<>>
         /\ pc \in {"start", "done"}
         /\ pc = "done" =>
              /\ ~result.ok /\ result.kind = "Config" /\ out = NoOutput
              /\ contains(result.msg, "fiat chart mode")
              /\ targets = <<>> => contains(result.msg, "at least one target currency")
              /\ targets # <<>> => contains(result.msg, "only supports fiat currency codes")
C26_Witness ==
    /\ ChartOnAmount
    /\ InCalc
    /\ targets # <<>>
    /\ pc = "done"
    /\ requests = <<>>
    /\ result.kind = "Config"

====
